---------------------------- MODULE Spec2Model ----------------------------
(***************************************************************************)
(* EMS Protocol Navigator: keyword-overlap context scorer, protocol search *)
(* view with category filters, the two quiz generators with their AI calls, *)
(* the Start Quiz and chat submits of the pages, and the medication         *)
(* calculator.                                                             *)
(*                                                                         *)
(* Text is a sequence of one-character strings, so that lower-casing,      *)
(* whitespace splitting, trimming, substring search, number parsing and    *)
(* number formatting are computed character by character.                  *)
(***************************************************************************)
EXTENDS Integers, Sequences, FiniteSets, TLC

VARIABLES
    protocols,          \* protocols.json: the static keyed mapping, in insertion order
    query,              \* findRelevantProtocols: its argument
    queryWords,         \* the words the query text was assembled from (history)
    queryKeywords,      \* findRelevantProtocols: the surviving tokens
    scoredProtocols,    \* findRelevantProtocols: the { protocol, score } list
    relevantProtocols,  \* findRelevantProtocols: the returned list
    scorerPc,           \* "idle" before the call, "returned" after it
    component,          \* which source of the repository the run exercises
    pagePc,             \* Home: "rendered" before the mount effect, "mounted" after it
    searchTerm,         \* Home: useState("")
    activeFilters,      \* Home: useState<string[]>([])
    searchResults,      \* Home: useState<Protocol[]>([])
    isSearching,        \* Home: useState(false)
    isChatMode,         \* Home: useState(false)
    searchRan,          \* whether a search run has taken place (history)
    searchedTerm,       \* searchTerm as the last search run saw it (history)
    filteredByCategories, \* applyFiltersAndSearch: its local list after the category filter
    fuseInvoked,        \* whether the last search run called Fuse's search (history)
    openai,             \* quiz route: whether the OpenAI client exists (OPENAI_API_KEY set)
    request,            \* quiz route: the body of the request being answered
    quizPc,             \* quiz route: "idle", "generating" or "responded"
    responseStatus,     \* quiz route: status of the response, 0 while there is none
    filteredProtocols,  \* retrying quiz route: filteredProtocols
    pool,               \* shuffle-and-pick quiz route: pool
    calculationType,    \* MedicationCalculator: useState(CALCULATION_TYPES.WEIGHT_DOSE)
    patientWeight,      \* MedicationCalculator: useState("")
    weightUnit,         \* MedicationCalculator: useState("kg")
    concMgPerMl,        \* MedicationCalculator: useState("")
    concMl,             \* MedicationCalculator: useState("1")
    doseRequired,       \* MedicationCalculator: useState("")
    doseUnit,           \* MedicationCalculator: useState("mg_kg")
    weightDoseResult,   \* MedicationCalculator: useState<string | null>(null)
    totalVolume,        \* MedicationCalculator: useState("")
    totalTime,          \* MedicationCalculator: useState("")
    dripSet,            \* MedicationCalculator: useState(DRIP_SETS[3].value)
    dripRateResult,     \* MedicationCalculator: useState<string | null>(null)
    inputValue,         \* MedicationCalculator: useState("")
    conversionResult,   \* MedicationCalculator: useState<string | null>(null)
    error,              \* MedicationCalculator: useState<string | null>(null)
    calcPc,             \* the calculator handler that ran last: "mounted", "calculated", "edited" (history)
    remembered,         \* an earlier run kept for comparison: its inputs and its results (history)
    allProtocols,       \* shuffle-and-pick quiz route: allProtocols, the array built by the last request
    shuffledPool,       \* shuffle-and-pick quiz route: pool after pool.sort(...)
    selected,           \* shuffle-and-pick quiz route: selected
    questions,          \* quiz routes: questions / generatedQuestions
    existingQuestionTexts, \* retrying quiz route: existingQuestionTexts
    attempt,            \* retrying quiz route: attempt, of the slot being generated
    attemptFailed,      \* whether an AI call of the slot being generated failed (history)
    slotFailed,         \* per finished slot, whether one of its AI calls failed (history)
    generated,          \* retrying quiz route: the last call of generateQuizQuestion, and how many the request made (history)
    quizState,          \* QuizPage: useState<'setup' | 'in-progress' | 'completed'>('setup')
    selectedCategories, \* QuizPage: useState<string[]>([])
    pageQuestions,      \* QuizPage: questions, useState<Question[]>([])
    isLoading,          \* QuizPage: useState<boolean>(false)
    pageError,          \* QuizPage: error, useState<string | null>(null)
    fetches,            \* requests to /api/quiz/generate sent by the page and not yet settled
    input,              \* Home: input of useChat
    isChatLoading,      \* Home: isLoading of useChat
    chatRequests,       \* requests to /api/chat sent by the page and not yet settled
    currentQuestionIndex, \* QuizPage: useState<number>(0)
    selectedOption,     \* QuizPage: useState<string | undefined>(undefined), "" for undefined
    showFeedback,       \* QuizPage: useState<boolean>(false)
    userAnswers,        \* QuizPage: useState<UserAnswer[]>([])
    score,              \* QuizPage: useState<number>(0)
    settled,            \* what the request of startQuiz that settled last came to (history)
    mistral,            \* chat route: whether the Mistral client exists (MISTRAL_API_KEY set)
    messages,           \* chat route: messages of the request answered last
    systemPrompt,       \* chat route: systemPrompt of the request answered last
    chatStatus          \* chat route: status of the response, 0 while there is none

scorerVars == <<query, queryWords, queryKeywords, scoredProtocols, relevantProtocols, scorerPc>>

searchVars == <<pagePc, searchTerm, activeFilters, searchResults, isSearching, isChatMode,
                searchRan, searchedTerm, filteredByCategories, fuseInvoked>>

quizVars == <<openai, request, quizPc, responseStatus, filteredProtocols, pool>>

calcInputs == <<patientWeight, weightUnit, concMgPerMl, concMl, doseRequired, doseUnit,
                totalVolume, totalTime, dripSet, inputValue>>

calcResults == <<weightDoseResult, dripRateResult, conversionResult>>

calcVars == <<calculationType, calcInputs, calcResults, error, calcPc>>

observerVars == <<remembered>>

generationVars == <<allProtocols, shuffledPool, selected, questions, existingQuestionTexts,
                    attempt, attemptFailed, slotFailed, generated>>

answerVars == <<currentQuestionIndex, selectedOption, showFeedback, userAnswers, score, settled>>

pageVars == <<quizState, selectedCategories, pageQuestions, isLoading, pageError, fetches,
              input, isChatLoading, chatRequests, answerVars>>

chatVars == <<mistral, messages, systemPrompt, chatStatus>>

vars == <<protocols, component, chatVars, pageVars, observerVars, generationVars, scorerVars, searchVars, quizVars, calcVars>>

---------------------------------------------------------------------------
(* Text helpers                                                            *)

UpperChars == <<"A","B","C","D","E","F","G","H","I","J","K","L","M",
                "N","O","P","Q","R","S","T","U","V","W","X","Y","Z">>
LowerChars == <<"a","b","c","d","e","f","g","h","i","j","k","l","m",
                "n","o","p","q","r","s","t","u","v","w","x","y","z">>

\* the lower-case letter of every upper-case letter
LowerOf == [c \in {UpperChars[i] : i \in 1..26} |->
               LowerChars[CHOOSE i \in 1..26 : UpperChars[i] = c]]

LowerChar(c) == IF c \in DOMAIN LowerOf THEN LowerOf[c] ELSE c

\* String.prototype.toLowerCase
ToLowerCase(s) == [i \in 1..Len(s) |-> LowerChar(s[i])]

\* the characters matched by \s that occur in the modelled texts
IsSpace(c) == c \in {" ", "\t", "\n"}

\* String.prototype.split(/\s+/): every maximal run of whitespace is one separator;
\* a separator at either end leaves an empty first or last piece
RECURSIVE SplitFrom(_, _, _, _)
SplitFrom(s, i, cur, acc) ==
    IF i > Len(s) THEN Append(acc, cur)
    ELSE IF IsSpace(s[i])
         THEN IF i > 1 /\ IsSpace(s[i-1])
              THEN SplitFrom(s, i + 1, cur, acc)
              ELSE SplitFrom(s, i + 1, <<>>, Append(acc, cur))
         ELSE SplitFrom(s, i + 1, Append(cur, s[i]), acc)

SplitWhitespace(s) == SplitFrom(s, 1, <<>>, <<>>)

\* String.prototype.includes
Includes(hay, needle) ==
    \E i \in 0..(Len(hay) - Len(needle)) :
        \A j \in 1..Len(needle) : hay[i + j] = needle[j]

\* Array.prototype.includes
SeqIncludes(seq, x) == \E i \in 1..Len(seq) : seq[i] = x

Min(a, b) == IF a < b THEN a ELSE b

\* a const declaration: Op applied to the value of v, v evaluated once
Let(v, Op(_)) == CHOOSE r \in { Op(x) : x \in {v} } : TRUE

\* the same for two declarations
Let2(v, w, Op(_, _)) == CHOOSE r \in { Op(x, y) : x \in {v}, y \in {w} } : TRUE


Digits == <<"0","1","2","3","4","5","6","7","8","9">>

\* the decimal numeral of a natural number
RECURSIVE Decimal(_)
Decimal(n) == IF n < 10 THEN <<Digits[n + 1]>> ELSE Append(Decimal(n \div 10), Digits[(n % 10) + 1])

---------------------------------------------------------------------------
(* Bounds of the model                                                     *)

MaxProtocols == 6       \* longest protocols.json of the scorer runs
MaxQueryWords == 3      \* most words in a freely assembled query
MaxCorpus == 2          \* longest protocols.json of the search and quiz-request runs
MaxSelected == 2        \* most categories in a quiz request
MaxQuizLength == 2      \* largest in-range length of a quiz request

---------------------------------------------------------------------------
(* protocols.json                                                          *)

\* the i-th key of the mapping; keys of a JSON object are pairwise distinct
Key(i) == <<"p">> \o Decimal(i)

txtCardiacArrest == <<"C","a","r","d","i","a","c"," ","A","r","r","e","s","t">>
txtEpinephrine == <<"e","p","i","n","e","p","h","r","i","n","e"," ","e","v","e","r","y"," ",
                    "3","-","5"," ","m","i","n","u","t","e","s">>
txtChestPain == <<"C","h","e","s","t"," ","P","a","i","n">>
txtWhatArrest == <<"W","h","a","t"," ","c","a","r","d","i","a","c"," ","a","r","r","e","s","t">>
txtStroke == <<"S","t","r","o","k","e">>
txtArrest == <<"a","r","r","e","s","t">>
txtSource == <<"p","d","f">>

\* name and content of the entries the scorer runs draw from
ScorerShapes ==
    { [name |-> txtCardiacArrest, content |-> txtEpinephrine],
      [name |-> txtChestPain,     content |-> txtWhatArrest],
      [name |-> txtStroke,        content |-> txtArrest] }

\* one entry of protocols.json together with its key; categories is optional: an array
\* (Arr) or absent (Undef)
Undef == [t |-> "undef", v |-> <<>>]
Arr(seq) == [t |-> "arr", v |-> seq]

\* a number-typed field that is absent, a number, or a string
NoNumber == [t |-> "undef", v |-> 0]
Num(n) == [t |-> "num", v |-> n]
StrNumber == [t |-> "str", v |-> 0]

\* the number Infinity, which JSON.parse yields for a numeral beyond the double range (1e999)
NumInfinity == [t |-> "inf", v |-> 0]

Entry(i, shape, cats) ==
    [key |-> Key(i), name |-> shape.name, content |-> shape.content,
     source_file |-> txtSource, categories |-> cats]

ScorerCorpora ==
    UNION { { [i \in 1..n |-> Entry(i, f[i], Undef)] : f \in [1..n -> ScorerShapes] }
            : n \in 0..MaxProtocols }

wWhat == <<"w","h","a","t">>
wIs == <<"i","s">>
wCardiac == <<"C","a","r","d","i","a","c">>
wArrest == <<"a","r","r","e","s","t">>
wThe == <<"t","h","e">>
wEpi == <<"e","p","i">>

QueryVocabulary == {wWhat, wIs, wCardiac, wArrest, wThe, wEpi}

QueryWordLists == UNION { [1..n -> QueryVocabulary] : n \in 0..MaxQueryWords }

\* the words joined by the separator
RECURSIVE Join(_, _)
Join(words, sep) ==
    IF Len(words) = 0 THEN <<>>
    ELSE IF Len(words) = 1 THEN words[1]
    ELSE words[1] \o sep \o Join(Tail(words), sep)

\* a query as typed: single blanks, or padded with blanks, tabs and a line end
QueryText(words, style) ==
    IF style = "plain" THEN Join(words, <<" ">>)
    ELSE <<" ">> \o Join(words, <<" ", "\t">>) \o <<"\n">>

---------------------------------------------------------------------------
(* findRelevantProtocols                                                   *)

StopWords == { <<"i","s">>, <<"t","h","e">>, <<"f","o","r">>, <<"a","n","d">>, <<"a">>,
               <<"o","f">>, <<"t","o">>, <<"i","n">> }

KeepKeywordLong(kw) == Len(kw) > 3 /\ kw \notin StopWords

KeepKeyword(kw) == Len(kw) > 2 /\ kw \notin StopWords

QueryKeywords(q) == SelectSeq(SplitWhitespace(ToLowerCase(q)), KeepKeyword)

\* the forEach loop: +2 per keyword found in the name, +1 per keyword found in the content
RECURSIVE KeywordScoreFlat(_, _, _)
KeywordScoreFlat(kws, nameLower, contentLower) ==
    IF Len(kws) = 0 THEN 0
    ELSE (IF Includes(nameLower, Head(kws)) THEN 1 ELSE 0)
         + (IF Includes(contentLower, Head(kws)) THEN 1 ELSE 0)
         + KeywordScoreFlat(Tail(kws), nameLower, contentLower)

RECURSIVE KeywordScore(_, _, _)
KeywordScore(kws, nameLower, contentLower) ==
    IF Len(kws) = 0 THEN 0
    ELSE (IF Includes(nameLower, Head(kws)) THEN 2 ELSE 0)
         + (IF Includes(contentLower, Head(kws)) THEN 1 ELSE 0)
         + KeywordScore(Tail(kws), nameLower, contentLower)

\* the members of a sequence
Members(seq) == { seq[k] : k \in 1..Len(seq) }

ScoreProtocolDistinct(protocol, kws) ==
    LET protocolNameLower == ToLowerCase(protocol.name)
        protocolContentLower == ToLowerCase(protocol.content)
        InName(kw) == Includes(protocolNameLower, kw)
        InContent(kw) == Includes(protocolContentLower, kw)
        nameMatchCount == Cardinality(Members(SelectSeq(kws, InName)))
        contentMatchCount == Cardinality(Members(SelectSeq(kws, InContent)))
    IN  KeywordScore(kws, protocolNameLower, protocolContentLower)
        + (IF nameMatchCount > 1 THEN nameMatchCount * 2 ELSE 0)
        + (IF contentMatchCount > 1 THEN contentMatchCount ELSE 0)

ScoreProtocol(protocol, kws) ==
    LET protocolNameLower == ToLowerCase(protocol.name)
        protocolContentLower == ToLowerCase(protocol.content)
        InName(kw) == Includes(protocolNameLower, kw)
        InContent(kw) == Includes(protocolContentLower, kw)
        nameMatchCount == Len(SelectSeq(kws, InName))
        contentMatchCount == Len(SelectSeq(kws, InContent))
    IN  KeywordScore(kws, protocolNameLower, protocolContentLower)
        + (IF nameMatchCount > 1 THEN nameMatchCount * 2 ELSE 0)
        + (IF contentMatchCount > 1 THEN contentMatchCount ELSE 0)

\* Object.values(protocols).map(...): one { protocol, score } per entry, in insertion order
ScoreAll(data, kws) ==
    [i \in 1..Len(data) |-> [protocol |-> data[i], score |-> ScoreProtocol(data[i], kws)]]

HasScore(item) == item.score > 0

\* where a stable descending sort puts item among the already sorted ones: behind every
\* item that does not score less
RECURSIVE InsertByScoreUnstable(_, _)
InsertByScoreUnstable(sorted, item) ==
    IF Len(sorted) = 0 THEN <<item>>
    ELSE IF Head(sorted).score <= item.score THEN <<item>> \o sorted
    ELSE <<Head(sorted)>> \o InsertByScoreUnstable(Tail(sorted), item)

RECURSIVE InsertByScore(_, _)
InsertByScore(sorted, item) ==
    IF Len(sorted) = 0 THEN <<item>>
    ELSE IF Head(sorted).score < item.score THEN <<item>> \o sorted
    ELSE <<Head(sorted)>> \o InsertByScore(Tail(sorted), item)

\* Array.prototype.sort((a, b) => b.score - a.score), which is stable
RECURSIVE SortByScore(_)
SortByScore(items) ==
    IF Len(items) = 0 THEN <<>>
    ELSE InsertByScore(SortByScore(SubSeq(items, 1, Len(items) - 1)), items[Len(items)])

TopCount == 5

SortedResults(scored) == SortByScore(SelectSeq(scored, HasScore))

TopProtocols(sorted) ==
    [i \in 1..Min(TopCount, Len(sorted)) |-> sorted[i].protocol]

\* findRelevantProtocols(query) as one call
FindRelevantProtocols ==
    /\ scorerPc = "idle"
    /\ LET kws == QueryKeywords(query)
       IN  /\ queryKeywords' = kws
           /\ IF Len(kws) = 0
              THEN /\ scoredProtocols' = <<>>
                   /\ relevantProtocols' = <<>>
              ELSE /\ scoredProtocols' = ScoreAll(protocols, kws)
                   /\ relevantProtocols' = TopProtocols(SortedResults(ScoreAll(protocols, kws)))
    /\ scorerPc' = "returned"
    /\ UNCHANGED <<protocols, component, chatVars, pageVars, observerVars, generationVars, calcVars, query, queryWords, searchVars, quizVars>>

---------------------------------------------------------------------------
(* The state of the parts a run does not exercise                          *)

ScorerIdle ==
    /\ query = <<>>
    /\ queryWords = <<>>
    /\ queryKeywords = <<>>
    /\ scoredProtocols = <<>>
    /\ relevantProtocols = <<>>
    /\ scorerPc = "idle"

SearchIdle ==
    /\ pagePc = "rendered"
    /\ searchTerm = <<>>
    /\ activeFilters = <<>>
    /\ searchResults = <<>>
    /\ isSearching = FALSE
    /\ isChatMode = FALSE
    /\ searchRan = FALSE
    /\ searchedTerm = <<>>
    /\ filteredByCategories = <<>>
    /\ fuseInvoked = FALSE

\* a string | null state: null, or the text
Null == [isNull |-> TRUE, text |-> <<>>]
Text(chars) == [isNull |-> FALSE, text |-> chars]

\* the error state: null, or the message of the Error caught
NoError == [isNull |-> TRUE, message |-> ""]
ErrorOf(message) == [isNull |-> FALSE, message |-> message]

CALCULATION_TYPES == {"WEIGHT_DOSE", "DRIP_RATE", "CONVERSION_LBS_KG", "CONVERSION_KG_LBS"}

DRIP_SETS == <<<<"1","0">>, <<"1","5">>, <<"2","0">>, <<"6","0">>>>

\* the calculator as its useState initialisers leave it
CalcIdle ==
    /\ calculationType = "WEIGHT_DOSE"
    /\ patientWeight = <<>>
    /\ weightUnit = "kg"
    /\ concMgPerMl = <<>>
    /\ concMl = <<"1">>
    /\ doseRequired = <<>>
    /\ doseUnit = "mg_kg"
    /\ weightDoseResult = Null
    /\ totalVolume = <<>>
    /\ totalTime = <<>>
    /\ dripSet = DRIP_SETS[4]
    /\ dripRateResult = Null
    /\ inputValue = <<>>
    /\ conversionResult = Null
    /\ error = NoError
    /\ calcPc = "mounted"

\* the quiz page and the chat form as their useState initialisers leave them
PageIdle ==
    /\ quizState = "setup"
    /\ selectedCategories = <<>>
    /\ pageQuestions = <<>>
    /\ isLoading = FALSE
    /\ pageError = ""
    /\ fetches = 0
    /\ input = <<>>
    /\ isChatLoading = FALSE
    /\ chatRequests = 0
    /\ currentQuestionIndex = 0
    /\ selectedOption = ""
    /\ showFeedback = FALSE
    /\ userAnswers = <<>>
    /\ score = 0
    /\ settled = "none"

\* the chat route before its first request
ChatIdle ==
    /\ mistral = FALSE
    /\ messages = <<>>
    /\ systemPrompt = <<>>
    /\ chatStatus = 0

\* generateQuizQuestion has not been called by the request being answered
NotCalled ==
    [called |-> FALSE, calls |-> 0, client |-> FALSE,
     outcome |-> [kind |-> "none", questionText |-> "", id |-> "none"],
     question |-> [id |-> "", questionText |-> "", protocol |-> <<>>]]

\* no run is kept
NothingRemembered == [kept |-> FALSE, input |-> <<>>, filters |-> <<>>, results |-> <<>>]

QuizIdle ==
    /\ openai = FALSE
    /\ request = [categories |-> Undef, length |-> NoNumber]
    /\ quizPc = "idle"
    /\ responseStatus = 0
    /\ filteredProtocols = <<>>
    /\ pool = <<>>
    /\ allProtocols = <<>>
    /\ shuffledPool = <<>>
    /\ selected = <<>>
    /\ questions = <<>>
    /\ existingQuestionTexts = <<>>
    /\ attempt = 0
    /\ attemptFailed = FALSE
    /\ slotFailed = <<>>
    /\ generated = NotCalled

---------------------------------------------------------------------------
(* Scorer runs: every corpus and query of the bounded sets                 *)

\* the query of the worked example: "what is cardiac arrest"
ExampleWords == <<wWhat, wIs, wCardiac, wArrest>>

\* every query over a corpus of at most one protocol, and every corpus under the
\* one-word queries and the example query
InitScorer ==
    /\ remembered = NothingRemembered
    /\ ChatIdle
    /\ PageIdle
    /\ \/ /\ protocols \in {c \in ScorerCorpora : Len(c) <= 1}
          /\ queryWords \in QueryWordLists \cup {ExampleWords}
       \/ /\ protocols \in ScorerCorpora
          /\ queryWords \in {w \in QueryWordLists : Len(w) <= 1} \cup {ExampleWords}
    /\ \E style \in {"plain", "padded"} : query = QueryText(queryWords, style)
    /\ queryKeywords = <<>>
    /\ scoredProtocols = <<>>
    /\ relevantProtocols = <<>>
    /\ scorerPc = "idle"
    /\ component = "chat"
    /\ SearchIdle
    /\ QuizIdle
    /\ CalcIdle

NextScorer == FindRelevantProtocols

SpecScorer == InitScorer /\ [][NextScorer]_vars

---------------------------------------------------------------------------
(* Properties of findRelevantProtocols                                     *)

\* the place of a returned protocol in protocols.json
PlaceOf(p) == CHOOSE i \in 1..Len(protocols) : protocols[i].key = p.key

\* the score of the i-th protocol under the surviving tokens
ScoreAt(i) == ScoreProtocol(protocols[i], queryKeywords)

\* rank order: a higher score first, and corpus order among equal scores
RanksBefore(i, j) == ScoreAt(i) > ScoreAt(j) \/ (ScoreAt(i) = ScoreAt(j) /\ i < j)

ReturnedPlaces == { PlaceOf(relevantProtocols[j]) : j \in 1..Len(relevantProtocols) }

\* C1: the result is the first five (or fewer) entries of the positive-score protocols in
\* stable descending order of score: at most 5 protocols of the corpus, each with score > 0,
\* in rank order (scores never increase, equal scores keep corpus order), and every omitted
\* protocol with a positive score ranks behind all five returned ones.
C1_TopFiveOfStableSort ==
    scorerPc = "returned" =>
        /\ Len(relevantProtocols) <= 5
        /\ \A j \in 1..Len(relevantProtocols) :
              /\ \E i \in 1..Len(protocols) : protocols[i] = relevantProtocols[j]
              /\ ScoreAt(PlaceOf(relevantProtocols[j])) > 0
        /\ \A j, k \in 1..Len(relevantProtocols) :
              j < k => RanksBefore(PlaceOf(relevantProtocols[j]), PlaceOf(relevantProtocols[k]))
        /\ \A i \in 1..Len(protocols) :
              (i \notin ReturnedPlaces /\ ScoreAt(i) > 0) =>
                  /\ Len(relevantProtocols) = 5
                  /\ \A r \in ReturnedPlaces : RanksBefore(r, i)

\* a call that cut a sixth positive-score protocol and returned both a tie and a strict
\* descent
C1_Witness ==
    /\ scorerPc = "returned"
    /\ Len(relevantProtocols) = 5
    /\ \E i \in 1..Len(protocols) : i \notin ReturnedPlaces /\ ScoreAt(i) > 0
    /\ \E j \in 1..4 : ScoreAt(PlaceOf(relevantProtocols[j])) = ScoreAt(PlaceOf(relevantProtocols[j + 1]))
    /\ \E j \in 1..4 : ScoreAt(PlaceOf(relevantProtocols[j])) > ScoreAt(PlaceOf(relevantProtocols[j + 1]))

\* the positions of the surviving tokens found in a lower-cased text
MatchingTokens(text) ==
    { k \in 1..Len(queryKeywords) : Includes(ToLowerCase(text), queryKeywords[k]) }

\* C2: the score of a protocol is 2 per surviving token found in its lower-cased name plus 1
\* per surviving token found in its lower-cased content, plus nameMatchCount*2 when more
\* than one token matched the name, plus contentMatchCount when more than one matched the
\* content; a protocol named "Cardiac Arrest" whose content matches no token scores 8 for
\* "what is cardiac arrest", and is returned when it is the corpus (as in the example).
C2_ScoreFormula ==
    scorerPc = "returned" /\ queryKeywords # <<>> =>
        /\ Len(scoredProtocols) = Len(protocols)
        /\ \A i \in 1..Len(protocols) :
              LET nameMatchCount == Cardinality(MatchingTokens(protocols[i].name))
                  contentMatchCount == Cardinality(MatchingTokens(protocols[i].content))
              IN  /\ scoredProtocols[i].protocol = protocols[i]
                  /\ scoredProtocols[i].score =
                        2 * nameMatchCount + contentMatchCount
                        + (IF nameMatchCount > 1 THEN nameMatchCount * 2 ELSE 0)
                        + (IF contentMatchCount > 1 THEN contentMatchCount ELSE 0)
                  /\ ( /\ queryWords = ExampleWords
                       /\ protocols[i].name = txtCardiacArrest
                       /\ contentMatchCount = 0 )
                     => /\ scoredProtocols[i].score = 8
                        /\ (Len(protocols) = 1 => relevantProtocols = <<protocols[i]>>)

\* the example: "what is cardiac arrest" over the one protocol "Cardiac Arrest"
C2_Witness ==
    /\ scorerPc = "returned"
    /\ queryWords = ExampleWords
    /\ Len(protocols) = 1
    /\ protocols[1].name = txtCardiacArrest
    /\ protocols[1].content = txtEpinephrine
    /\ scoredProtocols[1].score = 8
    /\ relevantProtocols = protocols

\* the lower-case spelling of a word of the vocabulary
LowerWord(w) == IF w = wCardiac THEN <<"c","a","r","d","i","a","c">> ELSE w

IsKept(w) ==
    /\ Len(w) > 2
    /\ w \notin { wIs, wThe, <<"f","o","r">>, <<"a","n","d">>, <<"a">>, <<"o","f">>,
                  <<"t","o">>, <<"i","n">> }

\* C3: the surviving tokens are exactly the lower-cased whitespace-separated words of the
\* query that are longer than 2 and are no stop word, in query order; when none survives
\* the result is empty and no protocol was scored.
C3_Tokenization ==
    scorerPc = "returned" =>
        /\ queryKeywords = SelectSeq([i \in 1..Len(queryWords) |-> LowerWord(queryWords[i])], IsKept)
        /\ queryKeywords = <<>> => (relevantProtocols = <<>> /\ scoredProtocols = <<>>)

\* a padded query whose stop word and short word were dropped and whose three-letter word
\* and capitalised word survived
C3_Witness ==
    /\ scorerPc = "returned"
    /\ queryWords = <<wThe, wCardiac, wEpi>>
    /\ Head(query) = " "
    /\ queryKeywords = <<LowerWord(wCardiac), wEpi>>
    /\ Len(protocols) = 1

\* a query of stop words and short words only, over a non-empty corpus
C3_WitnessNoToken ==
    /\ scorerPc = "returned"
    /\ queryWords = <<wIs, wThe>>
    /\ Len(protocols) > 0
    /\ relevantProtocols = <<>>

\* the distinct surviving tokens found in a lower-cased text
DistinctMatchingTokens(text) ==
    { queryKeywords[k] : k \in MatchingTokens(text) }

\* what the bonus pass added to the i-th protocol: its score less the per-token pass
BonusAt(i) ==
    scoredProtocols[i].score
    - KeywordScore(queryKeywords, ToLowerCase(protocols[i].name), ToLowerCase(protocols[i].content))

\* C13 (as claimed): in the bonus pass nameMatchCount and contentMatchCount are the numbers
\* of distinct surviving tokens matching the name and the content, so the bonus of a
\* protocol is 2 per distinct name-matching token when more than one distinct token matched
\* the name, plus 1 per distinct content-matching token when more than one matched the
\* content; a repeated query token changes neither whether a bonus applies nor its size.
C13_BonusCountsDistinctTokens ==
    scorerPc = "returned" /\ queryKeywords # <<>> =>
        \A i \in 1..Len(protocols) :
            LET nameMatchCount == Cardinality(DistinctMatchingTokens(protocols[i].name))
                contentMatchCount == Cardinality(DistinctMatchingTokens(protocols[i].content))
            IN  BonusAt(i) = (IF nameMatchCount > 1 THEN nameMatchCount * 2 ELSE 0)
                             + (IF contentMatchCount > 1 THEN contentMatchCount ELSE 0)

\* C13 (as coded): the two counts are taken over the positions of the surviving tokens, so a
\* token typed n times counts n times.
C13_BonusCountsTokenPositions ==
    scorerPc = "returned" /\ queryKeywords # <<>> =>
        \A i \in 1..Len(protocols) :
            LET nameMatchCount == Cardinality(MatchingTokens(protocols[i].name))
                contentMatchCount == Cardinality(MatchingTokens(protocols[i].content))
            IN  BonusAt(i) = (IF nameMatchCount > 1 THEN nameMatchCount * 2 ELSE 0)
                             + (IF contentMatchCount > 1 THEN contentMatchCount ELSE 0)

\* a query that repeats one token, over a protocol whose content holds it and whose name
\* does not: one distinct token matched, and the bonus was paid for two
C13_Witness ==
    /\ scorerPc = "returned"
    /\ queryKeywords = <<wArrest, wArrest>>
    /\ Len(protocols) = 1
    /\ protocols[1].name = txtStroke
    /\ Cardinality(DistinctMatchingTokens(protocols[1].content)) = 1
    /\ BonusAt(1) = 2
    /\ scoredProtocols[1].score = 4

---------------------------------------------------------------------------
(* Home: protocol search with category filters (page.tsx) and the earlier  *)
(* search page without filters (handleSearch)                              *)

\* the ids of CATEGORY_FILTERS
CATEGORY_FILTERS == <<"adult", "pediatric", "medical", "trauma">>

ProtocolsListByName(data) ==
    [i \in 1..Len(data) |->
        [id |-> data[i].name, name |-> data[i].name, content |-> data[i].content,
         source_file |-> data[i].source_file,
         categories |-> IF data[i].categories.t = "arr" THEN data[i].categories ELSE Arr(<<>>)]]

\* protocolsList: one Protocol per key, categories defaulting to []
ProtocolsList(data) ==
    [i \in 1..Len(data) |->
        [id |-> data[i].key, name |-> data[i].name, content |-> data[i].content,
         source_file |-> data[i].source_file,
         categories |-> IF data[i].categories.t = "arr" THEN data[i].categories ELSE Arr(<<>>)]]

CategoriesIncludeFirst(p, cat) ==
    p.categories.t = "arr" /\ Len(p.categories.v) > 0 /\ p.categories.v[1] = cat

\* protocol.categories?.includes(cat)
CategoriesInclude(p, cat) == p.categories.t = "arr" /\ SeqIncludes(p.categories.v, cat)

MatchesAny(p, filters) == \E k \in 1..Len(filters) : CategoriesInclude(p, filters[k])

\* activeFilters.every(filter => protocol.categories?.includes(filter))
MatchesEvery(p, filters) == \A k \in 1..Len(filters) : CategoriesInclude(p, filters[k])

MatchesSome(p, filters) == \E k \in 1..Len(filters) : CategoriesInclude(p, filters[k])

FilterByCategories(list, filters) ==
    IF Len(filters) > 0
    THEN SelectSeq(list, LAMBDA p : MatchesEvery(p, filters))
    ELSE list

\* String.prototype.trim
RECURSIVE TrimStart(_)
TrimStart(s) == IF Len(s) > 0 /\ IsSpace(Head(s)) THEN TrimStart(Tail(s)) ELSE s

RECURSIVE TrimEnd(_)
TrimEnd(s) == IF Len(s) > 0 /\ IsSpace(s[Len(s)]) THEN TrimEnd(SubSeq(s, 1, Len(s) - 1)) ELSE s

Trim(s) == TrimEnd(TrimStart(s))

\* new Fuse(list, fuseOptions).search(term).map(result => result.item).  Fuse.js is a
\* library outside the repository; it stands here as exact, case-insensitive containment
\* of the term in one of the keyed fields (name, id, content), in list order.
FuseSearch(list, term) ==
    SelectSeq(list, LAMBDA p :
        \/ Includes(ToLowerCase(p.name), ToLowerCase(term))
        \/ Includes(ToLowerCase(p.id), ToLowerCase(term))
        \/ Includes(ToLowerCase(p.content), ToLowerCase(term)))

ApplyFiltersAndSearchOverResults(term, filters) ==
    LET filtered == FilterByCategories(IF searchRan THEN searchResults ELSE ProtocolsList(protocols), filters)
    IN  IF Trim(term) = <<>>
        THEN [filtered |-> filtered, results |-> filtered, fuse |-> FALSE]
        ELSE [filtered |-> filtered, results |-> FuseSearch(filtered, term), fuse |-> TRUE]

\* applyFiltersAndSearch under the given state: the results it sets, and whether it
\* reached the Fuse search
ApplyFiltersAndSearch(term, filters) ==
    LET filtered == FilterByCategories(ProtocolsList(protocols), filters)
    IN  IF Trim(term) = <<>>
        THEN [filtered |-> filtered, results |-> filtered, fuse |-> FALSE]
        ELSE [filtered |-> filtered, results |-> FuseSearch(filtered, term), fuse |-> TRUE]

\* useEffect(applyFiltersAndSearch, [searchTerm, activeFilters]) after a render with the
\* given term and filters
RunSearchEffect(term, filters) ==
    /\ filteredByCategories' = ApplyFiltersAndSearch(term, filters).filtered
    /\ searchResults' = ApplyFiltersAndSearch(term, filters).results
    /\ fuseInvoked' = ApplyFiltersAndSearch(term, filters).fuse
    /\ isSearching' = FALSE
    /\ searchRan' = TRUE
    /\ searchedTerm' = term

\* the effect of the first render
MountEffect ==
    /\ component = "search"
    /\ pagePc = "rendered"
    /\ pagePc' = "mounted"
    /\ RunSearchEffect(searchTerm, activeFilters)
    /\ UNCHANGED <<protocols, component, chatVars, pageVars, observerVars, generationVars, calcVars, searchTerm, activeFilters, isChatMode, scorerVars, quizVars>>

\* handleSearchTermChange, then the effect
HandleSearchTermChange(t) ==
    /\ component = "search"
    /\ pagePc = "mounted"
    /\ t # searchTerm
    /\ searchTerm' = t
    /\ RunSearchEffect(t, activeFilters)
    /\ UNCHANGED <<protocols, component, chatVars, pageVars, observerVars, generationVars, calcVars, pagePc, activeFilters, isChatMode, scorerVars, quizVars>>

Toggled(prevFilters, filterId) ==
    IF SeqIncludes(prevFilters, filterId)
    THEN SelectSeq(prevFilters, LAMBDA id : id # filterId)
    ELSE Append(prevFilters, filterId)

\* toggleFilter, then the effect
ToggleFilter(filterId) ==
    /\ component = "search"
    /\ pagePc = "mounted"
    /\ activeFilters' = Toggled(activeFilters, filterId)
    /\ RunSearchEffect(searchTerm, Toggled(activeFilters, filterId))
    /\ UNCHANGED <<protocols, component, chatVars, pageVars, observerVars, generationVars, calcVars, pagePc, searchTerm, isChatMode, scorerVars, quizVars>>

\* clearAllFilters, then the effect; the button is rendered while a filter is active
ClearAllFilters ==
    /\ component = "search"
    /\ pagePc = "mounted"
    /\ Len(activeFilters) > 0
    /\ activeFilters' = <<>>
    /\ RunSearchEffect(searchTerm, <<>>)
    /\ UNCHANGED <<protocols, component, chatVars, pageVars, observerVars, generationVars, calcVars, pagePc, searchTerm, isChatMode, scorerVars, quizVars>>

\* the chat/search switch of either page
ToggleChatMode ==
    /\ component \in {"search", "legacySearch"}
    /\ pagePc = "mounted"
    /\ isChatMode' = ~isChatMode
    /\ UNCHANGED <<protocols, component, chatVars, pageVars, observerVars, generationVars, calcVars, pagePc, searchTerm, activeFilters, searchResults,
                   isSearching, searchRan, searchedTerm, filteredByCategories, fuseInvoked,
                   scorerVars, quizVars>>

\* the earlier page: handleSearchTermChange only stores the term
LegacySearchTermChange(t) ==
    /\ component = "legacySearch"
    /\ t # searchTerm
    /\ searchTerm' = t
    /\ UNCHANGED <<protocols, component, chatVars, pageVars, observerVars, generationVars, calcVars, pagePc, activeFilters, searchResults, isSearching,
                   isChatMode, searchRan, searchedTerm, filteredByCategories, fuseInvoked,
                   scorerVars, quizVars>>

\* the earlier page: handleSearch (the Search button, or Enter in the search box)
HandleSearch ==
    /\ component = "legacySearch"
    /\ IF Trim(searchTerm) = <<>>
       THEN /\ searchResults' = <<>>
            /\ fuseInvoked' = FALSE
            /\ UNCHANGED isChatMode
       ELSE /\ searchResults' = FuseSearch(ProtocolsList(protocols), searchTerm)
            /\ fuseInvoked' = TRUE
            /\ isChatMode' = FALSE
    /\ isSearching' = FALSE
    /\ searchRan' = TRUE
    /\ searchedTerm' = searchTerm
    /\ UNCHANGED <<protocols, component, chatVars, pageVars, observerVars, generationVars, calcVars, pagePc, searchTerm, activeFilters, filteredByCategories,
                   scorerVars, quizVars>>

---------------------------------------------------------------------------
(* Quiz generation requests: validation and category filter                *)

Str == [t |-> "str", v |-> <<>>]

\* allProtocols: { id, ...protocol } per key
AllProtocols(data) ==
    [i \in 1..Len(data) |->
        [id |-> data[i].key, name |-> data[i].name, content |-> data[i].content,
         source_file |-> data[i].source_file, categories |-> data[i].categories]]

\* the retrying generator's input check: categories a non-empty array, length a truthy number
RetryInputValid(req) ==
    /\ req.categories.t = "arr"
    /\ Len(req.categories.v) # 0
    /\ \/ req.length.t = "num" /\ req.length.v # 0
       \/ req.length.t = "inf"

\* allProtocols.filter(p => categories.some(cat => p.categories?.includes(cat)))
FilterSome(list, categories) == SelectSeq(list, LAMBDA p : MatchesSome(p, categories))

\* i < length
BelowLength(i, length) == length.t = "inf" \/ i < length.v

\* the retrying generator from the request to the first await of its generation loop,
\* or to its response when the loop has no iteration
RetryPostBegin(req) ==
    /\ component = "quizRetry"
    /\ quizPc = "idle"
    /\ request' = req
    /\ IF ~RetryInputValid(req)
       THEN /\ responseStatus' = 400
            /\ quizPc' = "responded"
            /\ filteredProtocols' = <<>>
       ELSE /\ filteredProtocols' = FilterSome(AllProtocols(protocols), req.categories.v)
            /\ IF Len(FilterSome(AllProtocols(protocols), req.categories.v)) = 0 /\ openai
               THEN responseStatus' = 404 /\ quizPc' = "responded"
               ELSE IF BelowLength(0, req.length)
               THEN responseStatus' = 0 /\ quizPc' = "generating"
               ELSE responseStatus' = 200 /\ quizPc' = "responded"
    /\ UNCHANGED <<protocols, component, chatVars, pageVars, observerVars, generationVars, calcVars, openai, pool, scorerVars, searchVars>>

\* the response is sent and the handler's locals are gone; the route awaits a request.
\* The array the shuffle-and-pick request built stays in the state as the garbage it is: no
\* later request reads it (see RequestProtocols).
AwaitNextRequest ==
    /\ component \in {"quizRetry", "quizShuffle"}
    /\ quizPc = "responded"
    /\ quizPc' = "idle"
    /\ request' = [categories |-> Undef, length |-> NoNumber]
    /\ responseStatus' = 0
    /\ filteredProtocols' = <<>>
    /\ pool' = <<>>
    /\ shuffledPool' = <<>>
    /\ selected' = <<>>
    /\ questions' = <<>>
    /\ existingQuestionTexts' = <<>>
    /\ attempt' = 0
    /\ attemptFailed' = FALSE
    /\ slotFailed' = <<>>
    /\ generated' = NotCalled
    /\ UNCHANGED <<protocols, component, chatVars, pageVars, observerVars, allProtocols, calcVars, openai, scorerVars, searchVars>>

ZodMaxLength == 20

\* requestSchema: categories an optional array of strings, length a number in 1..20
SchemaValid(req) ==
    /\ req.categories.t \in {"undef", "arr"}
    /\ req.length.t = "num"
    /\ req.length.v >= 1
    /\ req.length.v <= ZodMaxLength

\* const { categories = [], length } = parseResult.data
CategoriesOrDefault(req) == IF req.categories.t = "arr" THEN req.categories.v ELSE <<>>

\* p.categories?.some(c => categories.includes(c))
SomeCategoryIn(p, categories) ==
    /\ p.categories.t = "arr"
    /\ \E j \in 1..Len(p.categories.v) : SeqIncludes(categories, p.categories.v[j])

FilterPoolUnguarded(list, categories) ==
    SelectSeq(list, LAMBDA p : SomeCategoryIn(p, categories))

FilterPool(list, categories) ==
    IF Len(categories) # 0
    THEN SelectSeq(list, LAMBDA p : SomeCategoryIn(p, categories))
    ELSE list

\* the orders an array of n elements can be left in
Orders(n) == { f \in [1..n -> 1..n] : \A i, j \in 1..n : i # j => f[i] # f[j] }

\* pool.sort(() => Math.random() - 0.5): the array holds its elements in some order
SortRandom(list, order) == [i \in 1..Len(list) |-> list[order[i]]]

SliceWhole(list, length) == list

\* pool.slice(0, length)
Slice(list, length) == SubSeq(list, 1, Min(length, Len(list)))

RequestProtocolsShared(data, earlier) == IF earlier = <<>> THEN AllProtocols(data) ELSE earlier

\* allProtocols of a request of the shuffle-and-pick generator: a new array built from
\* protocols.json in the handler, whatever array an earlier request built and sorted
RequestProtocols(data, earlier) == AllProtocols(data)

\* the shuffle-and-pick generator from the request to its first AI call: validation, the
\* pool, the in-place shuffle and the selection.  pool is the array as the filter left it;
\* with no category it is allProtocols itself, which the sort then reorders.
ShufflePostBegin(req) ==
    /\ component = "quizShuffle"
    /\ quizPc = "idle"
    /\ request' = req
    /\ IF ~SchemaValid(req)
       THEN /\ responseStatus' = 400
            /\ quizPc' = "responded"
            /\ pool' = <<>>
            /\ UNCHANGED <<allProtocols, shuffledPool, selected>>
       ELSE \E built \in {RequestProtocols(protocols, allProtocols)} :
            \E filtered \in {FilterPool(built, CategoriesOrDefault(req))} :
                /\ pool' = filtered
                /\ IF Len(filtered) = 0
                   THEN /\ responseStatus' = 400
                        /\ quizPc' = "responded"
                        /\ allProtocols' = built
                        /\ UNCHANGED <<shuffledPool, selected>>
                   ELSE \E order \in Orders(Len(filtered)) :
                        /\ shuffledPool' = SortRandom(filtered, order)
                        /\ selected' = Slice(SortRandom(filtered, order), req.length.v)
                        /\ allProtocols' = IF Len(CategoriesOrDefault(req)) # 0
                                           THEN built
                                           ELSE SortRandom(filtered, order)
                        /\ responseStatus' = 0
                        /\ quizPc' = "generating"
    /\ UNCHANGED <<protocols, component, chatVars, pageVars, observerVars, calcVars, openai, filteredProtocols,
                   questions, existingQuestionTexts, attempt, attemptFailed, slotFailed,
                   generated, scorerVars, searchVars>>

---------------------------------------------------------------------------
(* Quiz generation: the AI calls and the questions                         *)

\* a question of the response: the kind of its id (the prefix the code gives it, "custom"
\* or "number" for an id the AI's JSON brought along), its text, and the id of the protocol
\* it was generated for
Question(id, questionText, protocolId) ==
    [id |-> id, questionText |-> questionText, protocol |-> protocolId]

\* what the awaited openai.chat.completions.create and JSON.parse can come to in the
\* shuffle-and-pick generator: the call throws, resp.choices is empty, the content is the
\* empty string, is no JSON, is the JSON null, or is a JSON object
ShuffleAiOutcomes == {"threw", "noChoices", "emptyContent", "invalidJson", "jsonNull", "jsonObject"}

\* the outcomes that end in the catch block
ShuffleAiFailures == {"threw", "noChoices", "emptyContent", "invalidJson"}

\* the question of one iteration: the parsed response when it is truthy, else the stub
ShuffleQuestion(proto, outcome) ==
    IF outcome = "jsonObject"
    THEN Question("parsed", "Q", proto.id)
    ELSE Question("fallback", "first step", proto.id)

\* one iteration of for (const proto of selected), and the response after the last one
ShuffleGenerate ==
    /\ component = "quizShuffle"
    /\ quizPc = "generating"
    /\ Len(questions) < Len(selected)
    /\ \E outcome \in (IF openai THEN ShuffleAiOutcomes ELSE {"noClient"}) :
          /\ questions' = Append(questions, ShuffleQuestion(selected[Len(questions) + 1], outcome))
          /\ slotFailed' = Append(slotFailed, outcome \in ShuffleAiFailures)
    /\ IF Len(questions) + 1 = Len(selected)
       THEN quizPc' = "responded" /\ responseStatus' = 200
       ELSE UNCHANGED <<quizPc, responseStatus>>
    /\ UNCHANGED <<protocols, component, chatVars, pageVars, observerVars, calcVars, openai, request, filteredProtocols,
                   pool, allProtocols, shuffledPool, selected, existingQuestionTexts, attempt,
                   attemptFailed, generated, scorerVars, searchVars>>

MaxAttemptsPerQuestion == 3

\* what the awaited call and the parsing can come to in the retrying generator: a throw, an
\* empty response structure, content that is no JSON, the JSON null, or a JSON object with
\* or without a questionText and with or without an id of its own
AiResponse(kind, questionText, id) == [kind |-> kind, questionText |-> questionText, id |-> id]

RetryAiOutcomes ==
    { AiResponse("threw", "", "none"), AiResponse("emptyResponse", "", "none"),
      AiResponse("invalidJson", "", "none"), AiResponse("jsonNull", "", "none"),
      AiResponse("jsonObject", "", "none"), AiResponse("jsonObject", "Q1", "none"),
      AiResponse("jsonObject", "Q2", "none"), AiResponse("jsonObject", "Q1", "custom"),
      AiResponse("jsonObject", "Q1", "number") }

RetryAiFailures == {"threw", "emptyResponse", "invalidJson"}

txtMockProtocol == <<"m","o","c","k","-","p","r","o","t","o","c","o","l">>

\* the ids of the protocols randomProtocol can be
RandomProtocolIds(filtered) ==
    IF Len(filtered) > 0 THEN { filtered[k].id : k \in 1..Len(filtered) } ELSE {txtMockProtocol}

\* generateQuizQuestion: the mock without a client, the AI's object under an "ai-" id that
\* an id of the object overrides, and the error mock for whatever the try block throws
GenerateQuizQuestion(protocolId, client, outcome) ==
    IF ~client THEN Question("mock", "mock", protocolId)
    ELSE IF outcome.kind = "jsonObject"
    THEN Question(IF outcome.id = "none" THEN "ai" ELSE outcome.id, outcome.questionText, protocolId)
    ELSE Question("mock-error", "mock (AI error)", protocolId)

\* the questions the state keeps: all of them, and under an infinite length, where the
\* array grows without end, those of the latest one or two slots
Kept(list, length) ==
    IF length.t = "inf" /\ Len(list) > 2 THEN <<list[Len(list)]>> ELSE list

\* the number of calls of generateQuizQuestion the request has made after one more; under
\* an infinite length, where it grows without end, it is not kept
CallsAfter(calls, length) == IF length.t = "inf" THEN 0 ELSE calls + 1

\* one attempt of the inner loop, with what follows it before the next await: the push,
\* the fallback mock after the last attempt, the next slot, the response after the last slot
RetryGenerate ==
    /\ component = "quizRetry"
    /\ quizPc = "generating"
    /\ \E protocolId \in RandomProtocolIds(filteredProtocols) :
       \E outcome \in (IF openai THEN RetryAiOutcomes ELSE {AiResponse("noClient", "", "none")}) :
       \E newQuestion \in {GenerateQuizQuestion(protocolId, openai, outcome)} :
          LET hasText == newQuestion.questionText # ""
              idThrows == hasText /\ newQuestion.id = "number"
              isAi == newQuestion.id = "ai"
              duplicate == /\ hasText
                           /\ isAi
                           /\ SeqIncludes(existingQuestionTexts, newQuestion.questionText)
              accepted == hasText /\ ~idThrows /\ ~duplicate
              failedCall == outcome.kind \in RetryAiFailures
              slotDone == accepted \/ attempt + 1 = MaxAttemptsPerQuestion
              pushed == IF accepted THEN newQuestion
                        ELSE Question("fallback-mock", "Fallback mock question", <<>>)
          IN  /\ questions' = IF slotDone THEN Kept(Append(questions, pushed), request.length)
                              ELSE questions
              /\ existingQuestionTexts' =
                    IF accepted /\ isAi
                    THEN Append(existingQuestionTexts, newQuestion.questionText)
                    ELSE existingQuestionTexts
              /\ attempt' = IF slotDone THEN 0 ELSE attempt + 1
              /\ attemptFailed' = IF slotDone THEN FALSE ELSE (attemptFailed \/ failedCall)
              /\ generated' = [called |-> TRUE, calls |-> CallsAfter(generated.calls, request.length),
                               client |-> openai, outcome |-> outcome, question |-> newQuestion]
              /\ slotFailed' = IF slotDone
                               THEN Kept(Append(slotFailed, attemptFailed \/ failedCall), request.length)
                               ELSE slotFailed
              /\ IF slotDone /\ ~BelowLength(Len(questions) + 1, request.length)
                 THEN quizPc' = "responded" /\ responseStatus' = 200
                 ELSE UNCHANGED <<quizPc, responseStatus>>
    /\ UNCHANGED <<protocols, component, chatVars, pageVars, observerVars, calcVars, openai, request, filteredProtocols,
                   pool, allProtocols, shuffledPool, selected, scorerVars, searchVars>>

---------------------------------------------------------------------------
(* Search and quiz-request runs                                            *)

\* the categories arrays the entries of these runs draw from, each with a name and content
SearchShapes ==
    { [name |-> txtCardiacArrest, content |-> txtEpinephrine, categories |-> Arr(<<"adult", "pediatric">>)],
      [name |-> txtChestPain,     content |-> txtWhatArrest,  categories |-> Arr(<<"trauma">>)],
      [name |-> txtStroke,        content |-> txtArrest,      categories |-> Arr(<<"adult", "medical", "trauma">>)],
      [name |-> txtStroke,        content |-> txtEpinephrine, categories |-> Arr(<<>>)],
      [name |-> txtChestPain,     content |-> txtArrest,      categories |-> Undef] }

SearchCorpora ==
    UNION { { [i \in 1..n |-> Entry(i, f[i], f[i].categories)] : f \in [1..n -> SearchShapes] }
            : n \in 0..MaxCorpus }

\* search-box contents: empty, blank, a word of the corpus, a word of no protocol
SearchTerms == { <<>>, <<" ", "\t">>, <<"A","r","r","e","s","t">>, <<"z","z","z">> }

CategoryIds == { CATEGORY_FILTERS[i] : i \in 1..Len(CATEGORY_FILTERS) }

\* arrays of pairwise distinct category ids
DistinctSeqs(n) ==
    { q \in [1..n -> CategoryIds] : \A i, j \in 1..n : i # j => q[i] # q[j] }

RequestCategories ==
    {Undef, Str} \cup { Arr(q) : q \in UNION { DistinctSeqs(n) : n \in 0..MaxSelected } }

RequestLengths == {NoNumber, StrNumber, Num(ZodMaxLength + 1)} \cup { Num(n) : n \in 0..MaxQuizLength }

Requests == [categories : RequestCategories, length : RequestLengths]

InitSearch ==
    /\ remembered = NothingRemembered
    /\ ChatIdle
    /\ PageIdle
    /\ protocols \in SearchCorpora
    /\ component \in {"search", "legacySearch", "quizRetry", "quizShuffle"}
    /\ ScorerIdle
    /\ pagePc = (IF component = "search" THEN "rendered" ELSE "mounted")
    /\ searchTerm = <<>>
    /\ activeFilters = <<>>
    /\ searchResults = <<>>
    /\ isSearching = FALSE
    /\ isChatMode = FALSE
    /\ searchRan = FALSE
    /\ searchedTerm = <<>>
    /\ filteredByCategories = <<>>
    /\ fuseInvoked = FALSE
    /\ openai \in (IF component = "quizRetry" THEN BOOLEAN ELSE {FALSE})
    /\ request = [categories |-> Undef, length |-> NoNumber]
    /\ quizPc = "idle"
    /\ responseStatus = 0
    /\ filteredProtocols = <<>>
    /\ pool = <<>>
    /\ allProtocols = <<>>
    /\ shuffledPool = <<>>
    /\ selected = <<>>
    /\ questions = <<>>
    /\ existingQuestionTexts = <<>>
    /\ attempt = 0
    /\ attemptFailed = FALSE
    /\ slotFailed = <<>>
    /\ generated = NotCalled
    /\ CalcIdle

NextSearch ==
    \/ MountEffect
    \/ \E t \in SearchTerms : HandleSearchTermChange(t)
    \/ \E filterId \in CategoryIds : ToggleFilter(filterId)
    \/ ClearAllFilters
    \/ ToggleChatMode
    \/ \E t \in SearchTerms : LegacySearchTermChange(t)
    \/ HandleSearch
    \/ \E req \in Requests : RetryPostBegin(req)
    \/ \E req \in Requests : ShufflePostBegin(req)
    \/ AwaitNextRequest

SpecSearch == InitSearch /\ [][NextSearch]_vars

---------------------------------------------------------------------------
(* Properties of the search view and the category filters                  *)

Ids(list) == [i \in 1..Len(list) |-> list[i].id]

\* C4: after a search run over a non-empty corpus with an empty or whitespace-only
\* search term, whatever filters are active, the result sequence is empty and Fuse's
\* search was not called.
C4_EmptyQueryEmptyResult ==
    ( /\ component \in {"search", "legacySearch"}
      /\ searchRan
      /\ Trim(searchedTerm) = <<>>
      /\ Len(protocols) > 0 )
    => (searchResults = <<>> /\ ~fuseInvoked)

\* what holds of the code instead: the earlier page yields no result, the page with
\* filters yields the category-filtered list, and neither calls Fuse's search
C4_EmptyQueryAsCoded ==
    ( /\ component \in {"search", "legacySearch"}
      /\ searchRan
      /\ Trim(searchedTerm) = <<>> )
    => /\ ~fuseInvoked
       /\ component = "legacySearch" => searchResults = <<>>
       /\ component = "search" => searchResults = filteredByCategories

\* whether the i-th entry of protocols.json is tagged with category c
Tagged(i, c) ==
    /\ protocols[i].categories.t = "arr"
    /\ c \in { protocols[i].categories.v[j] : j \in 1..Len(protocols[i].categories.v) }

\* the keys of the entries tagged with c, in corpus order
RECURSIVE TaggedKeys(_, _)
TaggedKeys(n, c) ==
    IF n = 0 THEN <<>>
    ELSE IF Tagged(n, c) THEN Append(TaggedKeys(n - 1, c), protocols[n].key)
    ELSE TaggedKeys(n - 1, c)

AllKeys == [i \in 1..Len(protocols) |-> protocols[i].key]

\* C5 as amended: with no category selected the search view's filter keeps the whole
\* protocol list in its order, and the shuffle-and-pick generator keeps every protocol of
\* a non-empty collection in its pool without an error response; the retrying generator
\* answers an empty categories array with status 400 before it filters.
C5_EmptySelectionKeepsAll ==
    /\ (component = "search" /\ searchRan /\ activeFilters = <<>>)
       => filteredByCategories = ProtocolsList(protocols)
    /\ ( /\ component = "quizShuffle"
         /\ quizPc # "idle"
         /\ SchemaValid(request)
         /\ CategoriesOrDefault(request) = <<>>
         /\ Len(protocols) > 0 )
       => (pool = AllProtocols(protocols) /\ responseStatus = 0 /\ quizPc = "generating")
    /\ ( /\ component = "quizRetry"
         /\ quizPc # "idle"
         /\ request.categories = Arr(<<>>) )
       => (responseStatus = 400 /\ filteredProtocols = <<>>)

\* an accepted shuffle-and-pick request without categories over two protocols
C5_Witness ==
    /\ component = "quizShuffle"
    /\ quizPc = "generating"
    /\ request.categories = Arr(<<>>)
    /\ Len(protocols) = 2
    /\ pool = AllProtocols(protocols)

\* C5 as stated: an empty selected set returns the full collection and raises no error on
\* the ALL-match path and on the ANY-match path of a quiz generation request.
C5_Original ==
    /\ (component = "search" /\ searchRan /\ activeFilters = <<>>)
       => filteredByCategories = ProtocolsList(protocols)
    /\ ( /\ component = "quizRetry"
         /\ quizPc # "idle"
         /\ request.categories = Arr(<<>>)
         /\ request.length.t = "num"
         /\ request.length.v # 0
         /\ Len(protocols) > 0 )
       => (responseStatus # 400 /\ filteredProtocols = AllProtocols(protocols))
    /\ ( /\ component = "quizShuffle"
         /\ quizPc # "idle"
         /\ SchemaValid(request)
         /\ CategoriesOrDefault(request) = <<>>
         /\ Len(protocols) > 0 )
       => (responseStatus # 400 /\ pool = AllProtocols(protocols))

\* C6: with exactly one category c selected, the ALL-match filter of the search view and
\* the ANY-match filters of both quiz generators return the protocols tagged with c, in
\* corpus order, hence the same sequence; over [adult, pediatric] and [trauma], selecting
\* pediatric returns the first protocol only.
C6_SingleCategory ==
    /\ (component = "search" /\ searchRan /\ Len(activeFilters) = 1)
       => Ids(filteredByCategories) = TaggedKeys(Len(protocols), activeFilters[1])
    /\ ( /\ component = "quizRetry"
         /\ quizPc # "idle"
         /\ RetryInputValid(request)
         /\ Len(request.categories.v) = 1 )
       => Ids(filteredProtocols) = TaggedKeys(Len(protocols), request.categories.v[1])
    /\ ( /\ component = "quizShuffle"
         /\ quizPc # "idle"
         /\ SchemaValid(request)
         /\ Len(CategoriesOrDefault(request)) = 1 )
       => Ids(pool) = TaggedKeys(Len(protocols), request.categories.v[1])

\* the example: pediatric selected in the search view over [adult, pediatric] and [trauma]
C6_Witness ==
    /\ component = "search"
    /\ searchRan
    /\ activeFilters = <<"pediatric">>
    /\ Len(protocols) = 2
    /\ protocols[1].categories = Arr(<<"adult", "pediatric">>)
    /\ protocols[2].categories = Arr(<<"trauma">>)
    /\ Ids(filteredByCategories) = <<protocols[1].key>>

\* the categories a shown protocol carries
CategoriesOf(p) == IF p.categories.t = "arr" THEN Members(p.categories.v) ELSE {}

\* C19: in the search view the category filter is applied before matching: after any
\* sequence of search-term edits, filter toggles and Clear All, every protocol in
\* searchResults is one the filter kept and has every active filter among its categories,
\* whether or not a search term is present.
C19_ResultsMatchEveryFilter ==
    (component = "search" /\ searchRan) =>
        \A i \in 1..Len(searchResults) :
            /\ Members(activeFilters) \subseteq CategoriesOf(searchResults[i])
            /\ \E k \in 1..Len(filteredByCategories) : filteredByCategories[k] = searchResults[i]

\* a term two protocols match was searched under two filters that one of them carries
C19_Witness ==
    /\ component = "search"
    /\ searchRan
    /\ fuseInvoked
    /\ Len(activeFilters) = 2
    /\ Len(protocols) = 2
    /\ Len(FuseSearch(ProtocolsList(protocols), searchedTerm)) = 2
    /\ Len(searchResults) = 1

\* the filters were cleared with a term in the box and the search ran unfiltered
C19_WitnessCleared ==
    /\ component = "search"
    /\ searchRan
    /\ fuseInvoked
    /\ activeFilters = <<>>
    /\ Len(searchResults) = 2
    /\ \E i \in 1..2 : CategoriesOf(searchResults[i]) = {}

---------------------------------------------------------------------------
(* Numbers of the calculator                                               *)
(*                                                                         *)
(* A JavaScript number is NaN, Infinity or a finite value sign*(n/d)*H^h   *)
(* with H = 10^308, n/d in lowest terms: the range of a double is kept     *)
(* (products beyond 1.797e308 become Infinity, quotients below the         *)
(* smallest double become 0); the rounding of the 53-bit mantissa is not:  *)
(* finite values are exact.                                                *)

NaN == [k |-> "nan", neg |-> FALSE, n |-> 0, d |-> 1, h |-> 0]
Infinity == [k |-> "inf", neg |-> FALSE, n |-> 0, d |-> 1, h |-> 0]
Zero == [k |-> "fin", neg |-> FALSE, n |-> 0, d |-> 1, h |-> 0]

RECURSIVE Gcd(_, _)
Gcd(a, b) == IF b = 0 THEN a ELSE Let(a % b, LAMBDA r : Gcd(b, r))

RECURSIVE Pow10(_)
Pow10(e) == IF e = 0 THEN 1 ELSE 10 * Pow10(e - 1)

\* the first count digits after the point of r/d, r < d, as a natural number
RECURSIVE FractionPart(_, _, _)
FractionPart(r, d, count) ==
    IF count = 0 THEN 0
    ELSE ((10 * r) \div d) * Pow10(count - 1) + FractionPart((10 * r) % d, d, count - 1)

\* whether (n/d)*H is beyond the largest double, 1.7977e308
BeyondMaxValue(n, d) ==
    \/ n >= 2 * d
    \/ (n >= d /\ FractionPart(n - d, d, 4) >= 7977)

\* the double nearest to sign*(n/d)*H^h, for n >= 0 and d > 0
Finite(neg, n, d, h) ==
    Let2(n, d, LAMBDA num, den :
        IF num = 0 THEN [Zero EXCEPT !.neg = neg]
        ELSE Let(Gcd(num, den), LAMBDA g :
                 IF h > 1 \/ (h = 1 /\ BeyondMaxValue(num \div g, den \div g))
                 THEN [Infinity EXCEPT !.neg = neg]
                 ELSE IF h < -1 THEN [Zero EXCEPT !.neg = neg]
                 ELSE [k |-> "fin", neg |-> neg, n |-> num \div g, d |-> den \div g, h |-> h]))

IsNaN(x) == x.k = "nan"
IsZero(x) == x.k = "fin" /\ x.n = 0
IsNegative(x) == x.k # "nan" /\ x.neg /\ ~IsZero(x)

\* x * y
Mul(a, b) == Let2(a, b, LAMBDA x, y :
    IF IsNaN(x) \/ IsNaN(y) THEN NaN
    ELSE IF x.k = "inf" \/ y.k = "inf"
         THEN IF IsZero(x) \/ IsZero(y) THEN NaN
              ELSE [Infinity EXCEPT !.neg = (x.neg # y.neg)]
    ELSE LET g1 == Gcd(x.n, y.d)
             g2 == Gcd(y.n, x.d)
         IN  IF x.n = 0 \/ y.n = 0 THEN [Zero EXCEPT !.neg = (x.neg # y.neg)]
             ELSE Finite(x.neg # y.neg, (x.n \div g1) * (y.n \div g2),
                         (x.d \div g2) * (y.d \div g1), x.h + y.h))

\* x / y
Div(a, b) == Let2(a, b, LAMBDA x, y :
    IF IsNaN(x) \/ IsNaN(y) THEN NaN
    ELSE IF x.k = "inf"
         THEN IF y.k = "inf" THEN NaN ELSE [Infinity EXCEPT !.neg = (x.neg # y.neg)]
    ELSE IF y.k = "inf" THEN [Zero EXCEPT !.neg = (x.neg # y.neg)]
    ELSE IF IsZero(y)
         THEN IF IsZero(x) THEN NaN ELSE [Infinity EXCEPT !.neg = (x.neg # y.neg)]
    ELSE IF IsZero(x) THEN [Zero EXCEPT !.neg = (x.neg # y.neg)]
    ELSE LET g1 == Gcd(x.n, y.n)
             g2 == Gcd(y.d, x.d)
         IN  Finite(x.neg # y.neg, (x.n \div g1) * (y.d \div g2),
                    (x.d \div g2) * (y.n \div g1), x.h - y.h))

IsDigit(c) == \E i \in 1..10 : Digits[i] = c
DigitValue(c) == (CHOOSE i \in 1..10 : Digits[i] = c) - 1

\* the length of the run of digits of s that starts at position i
RECURSIVE DigitRun(_, _)
DigitRun(s, i) == IF i <= Len(s) /\ IsDigit(s[i]) THEN 1 + DigitRun(s, i + 1) ELSE 0

\* the natural number written by the digits s
RECURSIVE DigitsValue(_)
DigitsValue(s) ==
    IF Len(s) = 0 THEN 0
    ELSE Let(SubSeq(s, 1, Len(s) - 1), LAMBDA front :
             10 * DigitsValue(front) + DigitValue(s[Len(s)]))

txtInfinity == <<"I","n","f","i","n","i","t","y">>
txtNaN == <<"N","a","N">>

HasPrefixAt(s, i, prefix) ==
    /\ i + Len(prefix) - 1 <= Len(s)
    /\ SubSeq(s, i, i + Len(prefix) - 1) = prefix

\* mantissa * 10^exp10 as a number, exp10 split into the power of H and the rest
Scaled(neg, mantissa, exp10) ==
    Let(exp10, LAMBDA exponent :
        LET h == IF exponent >= 308 THEN 1 ELSE IF exponent <= -308 THEN -1 ELSE 0
            e == exponent - 308 * h
        IN  IF e >= 0 THEN Finite(neg, mantissa * Pow10(e), 1, h)
            ELSE Finite(neg, mantissa, Pow10(-e), h))

\* parseFloat: leading whitespace, a sign, then Infinity or the longest decimal literal
\* (digits, fraction, exponent); NaN when no number starts the text
ParseFloat(text) ==
    Let(TrimStart(text), LAMBDA s :
    LET signed == Len(s) > 0 /\ s[1] \in {"+", "-"}
        neg == Len(s) > 0 /\ s[1] = "-"
        i0 == IF signed THEN 2 ELSE 1
    IN  Let(DigitRun(s, i0), LAMBDA intLen :
        LET dot == i0 + intLen
            hasDot == dot <= Len(s) /\ s[dot] = "."
        IN  Let(IF hasDot THEN DigitRun(s, dot + 1) ELSE 0, LAMBDA fracLen :
            LET afterNum == IF hasDot /\ (intLen + fracLen > 0) THEN dot + 1 + fracLen ELSE dot
                hasE == afterNum <= Len(s) /\ s[afterNum] \in {"e", "E"}
                expSigned == hasE /\ afterNum + 1 <= Len(s) /\ s[afterNum + 1] \in {"+", "-"}
                expStart == IF expSigned THEN afterNum + 2 ELSE afterNum + 1
                expNeg == expSigned /\ s[afterNum + 1] = "-"
            IN  Let(IF hasE THEN DigitRun(s, expStart) ELSE 0, LAMBDA expLen :
                LET expValue == IF expLen > 0
                                THEN DigitsValue(SubSeq(s, expStart, expStart + expLen - 1))
                                ELSE 0
                    mantissa == DigitsValue(SubSeq(s, i0, i0 + intLen - 1)
                                            \o SubSeq(s, dot + 1, dot + fracLen))
                IN  IF HasPrefixAt(s, i0, txtInfinity) THEN [Infinity EXCEPT !.neg = neg]
                    ELSE IF intLen + fracLen = 0 THEN NaN
                    ELSE Scaled(neg, mantissa,
                                (IF expNeg THEN 0 - expValue ELSE expValue) - fracLen)))))

\* n/d rounded to an integer, halves upwards
RoundHalfUp(n, d) == IF 2 * (n % d) >= d THEN (n \div d) + 1 ELSE n \div d

\* the numeral of m with at least width digits
RECURSIVE Padded(_, _)
Padded(m, width) ==
    IF Len(Decimal(m)) >= width THEN Decimal(m)
    ELSE <<"0">> \o (IF width > 1 /\ Len(Decimal(m)) < width - 1
                    THEN Padded(m, width - 1) ELSE Decimal(m))

\* the fixed notation of a finite non-negative n/d below 10^21 with f fraction digits
FixedNotation(n, d, f) ==
    LET whole == n \div d
        scaledFrac == RoundHalfUp((n % d) * Pow10(f), d)
        carry == IF scaledFrac = Pow10(f) THEN 1 ELSE 0
        frac == IF scaledFrac = Pow10(f) THEN 0 ELSE scaledFrac
    IN  Decimal(whole + carry) \o (IF f = 0 THEN <<>> ELSE <<".">> \o Padded(frac, f))

\* the number of places the decimal point of n/d moves to leave one digit before it
RECURSIVE Order(_, _)
Order(n, d) ==
    IF n >= 10 * d THEN 1 + Order(n, 10 * d)
    ELSE IF n < d THEN Order(10 * n, d) - 1
    ELSE 0

\* the digits of r/d after the point, r < d, while they last and at most count of them
RECURSIVE FractionDigits(_, _, _)
FractionDigits(r, d, count) ==
    IF r = 0 \/ count = 0 THEN <<>>
    ELSE <<Digits[((10 * r) \div d) + 1]>> \o FractionDigits((10 * r) % d, d, count - 1)

\* Number.prototype.toString of a value of at least 10^21: exponent notation, the
\* mantissa digits cut after the sixteenth
ExponentNotation(n, d, h) ==
    LET o == Order(n, d)
        mn == IF o >= 0 THEN n ELSE n * Pow10(-o)
        md == IF o >= 0 THEN d * Pow10(o) ELSE d
        rest == FractionDigits(mn % md, md, 16)
    IN  <<Digits[(mn \div md) + 1]>> \o (IF Len(rest) > 0 THEN <<".">> \o rest ELSE <<>>)
        \o <<"e", "+">> \o Decimal(308 * h + o)

\* Number.prototype.toFixed(f)
ToFixed(number, f) == Let(number, LAMBDA x :
    IF x.k = "nan" THEN txtNaN
    ELSE IF x.k = "inf" THEN (IF x.neg THEN <<"-">> ELSE <<>>) \o txtInfinity
    ELSE (IF x.neg /\ ~IsZero(x) THEN <<"-">> ELSE <<>>)
         \o (IF x.h = 1 THEN ExponentNotation(x.n, x.d, x.h)
             ELSE IF x.h = -1 THEN FixedNotation(0, 1, f)
             ELSE FixedNotation(x.n, x.d, f)))

---------------------------------------------------------------------------
(* MedicationCalculator                                                    *)

txtTotalDose ==
    <<"T","o","t","a","l"," ","D","o","s","e",":"," ">>
txtMgVolume ==
    <<" ","m","g","."," ","V","o","l","u","m","e"," ","t","o"," ","A","d","m","i","n","i","s","t","e","r",":"," ">>
txtMl ==
    <<" ","m","L",".">>
txtCannotCalculate ==
    <<"C","a","n","n","o","t"," ","c","a","l","c","u","l","a","t","e"," ","v","o","l","u","m","e",":"," ","D","r","u","g"," ","c","o","n","c","e","n","t","r","a","t","i","o","n"," ","i","s"," ","z","e","r","o"," ","b","u","t"," ","d","o","s","e"," ","i","s"," ","r","e","q","u","i","r","e","d",".">>
txtDripRate ==
    <<"D","r","i","p"," ","R","a","t","e",":"," ">>
txtGtts ==
    <<" ","g","t","t","s","/","m","i","n",".">>
txtLbsEquals ==
    <<" ","l","b","s"," ","="," ">>
txtKg ==
    <<" ","k","g",".">>
txtKgEquals ==
    <<" ","k","g"," ","="," ">>
txtLbs ==
    <<" ","l","b","s",".">>

\* what the number fields are given: each is an <Input type="number">, whose value is
\* the empty text or a valid floating-point literal
numEmpty == <<>>
numMinusFive == <<"-","5">>
numZero == <<"0">>
numOne == <<"1">>
numHalf == <<"0",".","5">>
numTen == <<"1","0">>
numSeventy == <<"7","0">>
numHundred == <<"1","0","0">>
numPounds == <<"1","5","4">>
numThousand == <<"1","0","0","0">>
numSixty == <<"6","0">>
numHuge == <<"1","e","3","0","8">>

PatientWeightTexts == {numEmpty, numMinusFive, numZero, numSeventy, numHuge}
ConcMgTexts == {numEmpty, numZero, numHundred}
ConcMlTexts == {numMinusFive, numZero, numOne}
DoseTexts == {numEmpty, numZero, numHalf, numTen}
TotalVolumeTexts == {numEmpty, numThousand, numHuge}
TotalTimeTexts == {numMinusFive, numZero, numSixty}
InputValueTexts == {numEmpty, numMinusFive, numZero, numPounds, numHuge}

msgInvalidInput == "Invalid input: All numerical inputs must be positive numbers."
msgConcMlZero == "Concentration volume (mL) cannot be zero."
msgConcMgZero == "Drug concentration (mg) cannot be zero if dose is required."
msgTimeZero == "Time cannot be zero."

\* the literal 2.20462
LbsPerKg == Finite(FALSE, 110231, 50000, 0)
Thousand == Finite(FALSE, 1000, 1, 0)

\* the same, without the test that throws
ParseNumUnchecked(val) == [ok |-> TRUE, num |-> ParseFloat(val)]

\* parseNum: the number, or not ok where it throws
ParseNum(val) ==
    Let(ParseFloat(val), LAMBDA num : [ok |-> ~(IsNaN(num) \/ IsNegative(num)), num |-> num])

\* what the try block leaves behind: the message thrown, or the result set
Thrown(message) == [error |-> ErrorOf(message), result |-> Null]
Result(chars) == [error |-> NoError, result |-> Text(chars)]

TotalDoseNeeded(finalWeightKg, doseReq, unit) ==
    IF unit = "mg_kg" THEN Mul(finalWeightKg, doseReq)
    ELSE IF unit = "mcg_kg" THEN Div(Mul(finalWeightKg, doseReq), Thousand)
    ELSE Zero

\* case CALCULATION_TYPES.WEIGHT_DOSE
WeightDose(weightText, wUnit, concMgText, concMlText, doseText, dUnit) ==
    LET weight == ParseNum(weightText)
        finalWeightKg == IF wUnit = "lbs" THEN Div(weight.num, LbsPerKg) ELSE weight.num
        concMg == ParseNum(concMgText)
        concInMl == ParseNum(concMlText)
        drugConcPerMl == Div(concMg.num, concInMl.num)
        doseReq == ParseNum(doseText)
        totalDoseNeeded == TotalDoseNeeded(finalWeightKg, doseReq.num, dUnit)
        volumeToAdminister ==
            IF IsZero(drugConcPerMl)
            THEN (IF IsZero(totalDoseNeeded) THEN Zero ELSE Infinity)
            ELSE Div(totalDoseNeeded, drugConcPerMl)
    IN  IF ~weight.ok \/ ~concMg.ok \/ ~concInMl.ok THEN Thrown(msgInvalidInput)
        ELSE IF IsZero(concInMl.num) THEN Thrown(msgConcMlZero)
        ELSE IF ~doseReq.ok THEN Thrown(msgInvalidInput)
        ELSE IF IsZero(drugConcPerMl) /\ ~IsZero(totalDoseNeeded) THEN Thrown(msgConcMgZero)
        ELSE IF volumeToAdminister = Infinity THEN Result(txtCannotCalculate)
        ELSE Result(txtTotalDose \o ToFixed(totalDoseNeeded, 2) \o txtMgVolume
                    \o ToFixed(volumeToAdminister, 2) \o txtMl)

\* case CALCULATION_TYPES.DRIP_RATE
DripRate(volumeText, timeText, setText) ==
    LET vol == ParseNum(volumeText)
        time == ParseNum(timeText)
        set == ParseNum(setText)
        rate == Div(Mul(vol.num, set.num), time.num)
    IN  IF ~vol.ok \/ ~time.ok \/ ~set.ok THEN Thrown(msgInvalidInput)
        ELSE IF IsZero(time.num) THEN Thrown(msgTimeZero)
        ELSE Result(txtDripRate \o ToFixed(rate, 0) \o txtGtts)

\* case CALCULATION_TYPES.CONVERSION_LBS_KG
ConversionLbsKg(text) ==
    LET lbs == ParseNum(text)
        kg == Div(lbs.num, LbsPerKg)
    IN  IF ~lbs.ok THEN Thrown(msgInvalidInput)
        ELSE Result(ToFixed(lbs.num, 2) \o txtLbsEquals \o ToFixed(kg, 2) \o txtKg)

\* case CALCULATION_TYPES.CONVERSION_KG_LBS
ConversionKgLbs(text) ==
    LET kgs == ParseNum(text)
        pounds == Mul(kgs.num, LbsPerKg)
    IN  IF ~kgs.ok THEN Thrown(msgInvalidInput)
        ELSE Result(ToFixed(kgs.num, 2) \o txtKgEquals \o ToFixed(pounds, 2) \o txtLbs)

\* handleCalculate: error and the three results are cleared, then the case of the
\* selected type sets its result, or the catch sets error
HandleCalculate ==
    /\ component = "calculator"
    /\ \E outcome \in
           { IF calculationType = "WEIGHT_DOSE"
             THEN WeightDose(patientWeight, weightUnit, concMgPerMl, concMl, doseRequired, doseUnit)
             ELSE IF calculationType = "DRIP_RATE"
             THEN DripRate(totalVolume, totalTime, dripSet)
             ELSE IF calculationType = "CONVERSION_LBS_KG"
             THEN ConversionLbsKg(inputValue)
             ELSE ConversionKgLbs(inputValue) } :
           /\ error' = outcome.error
           /\ weightDoseResult' = (IF calculationType = "WEIGHT_DOSE" THEN outcome.result ELSE Null)
           /\ dripRateResult' = (IF calculationType = "DRIP_RATE" THEN outcome.result ELSE Null)
           /\ conversionResult' =
                  (IF calculationType \in {"CONVERSION_LBS_KG", "CONVERSION_KG_LBS"}
                   THEN outcome.result ELSE Null)
    /\ calcPc' = "calculated"
    /\ UNCHANGED <<protocols, component, chatVars, pageVars, observerVars, generationVars, scorerVars, searchVars, quizVars, calculationType, calcInputs>>

\* clearInputs without its setters of the results and without clearError
ClearedInputsOnly ==
    /\ patientWeight' = <<>>
    /\ concMgPerMl' = <<>>
    /\ concMl' = <<"1">>
    /\ doseRequired' = <<>>
    /\ totalVolume' = <<>>
    /\ totalTime' = <<>>
    /\ inputValue' = <<>>
    /\ UNCHANGED <<weightDoseResult, dripRateResult, conversionResult, error,
                   weightUnit, doseUnit, dripSet>>

\* what clearInputs sets; the unit selects and the drip set keep their values
Cleared ==
    /\ patientWeight' = <<>>
    /\ concMgPerMl' = <<>>
    /\ concMl' = <<"1">>
    /\ doseRequired' = <<>>
    /\ totalVolume' = <<>>
    /\ totalTime' = <<>>
    /\ inputValue' = <<>>
    /\ weightDoseResult' = Null
    /\ dripRateResult' = Null
    /\ conversionResult' = Null
    /\ error' = NoError
    /\ UNCHANGED <<weightUnit, doseUnit, dripSet>>

\* the Clear Inputs button
ClearInputs ==
    /\ component = "calculator"
    /\ Cleared
    /\ calcPc' = "edited"
    /\ UNCHANGED <<protocols, component, chatVars, pageVars, observerVars, generationVars, scorerVars, searchVars, quizVars, calculationType>>

\* the dismiss button of the error box, rendered while error is set
ClearError ==
    /\ component = "calculator"
    /\ ~error.isNull
    /\ error' = NoError
    /\ calcPc' = "edited"
    /\ UNCHANGED <<protocols, component, chatVars, pageVars, observerVars, generationVars, scorerVars, searchVars, quizVars, calculationType,
                   calcInputs, calcResults>>

\* the type select, and the effect on [calculationType] that calls clearInputs
SetCalculationType(type) ==
    /\ component = "calculator"
    /\ type # calculationType
    /\ calculationType' = type
    /\ Cleared
    /\ calcPc' = "edited"
    /\ UNCHANGED <<protocols, component, chatVars, pageVars, observerVars, generationVars, scorerVars, searchVars, quizVars>>

\* the frame of a handler that stores one input
InputStored ==
    /\ component = "calculator"
    /\ calcPc' = "edited"
    /\ UNCHANGED <<protocols, component, chatVars, pageVars, observerVars, generationVars, scorerVars, searchVars, quizVars, calculationType,
                   calcResults, error>>

SetPatientWeight(text) ==
    /\ calculationType = "WEIGHT_DOSE"
    /\ patientWeight' = text
    /\ InputStored
    /\ UNCHANGED <<weightUnit, concMgPerMl, concMl, doseRequired, doseUnit, totalVolume,
                   totalTime, dripSet, inputValue>>

SetWeightUnit(unit) ==
    /\ calculationType = "WEIGHT_DOSE"
    /\ weightUnit' = unit
    /\ InputStored
    /\ UNCHANGED <<patientWeight, concMgPerMl, concMl, doseRequired, doseUnit, totalVolume,
                   totalTime, dripSet, inputValue>>

SetConcMgPerMl(text) ==
    /\ calculationType = "WEIGHT_DOSE"
    /\ concMgPerMl' = text
    /\ InputStored
    /\ UNCHANGED <<patientWeight, weightUnit, concMl, doseRequired, doseUnit, totalVolume,
                   totalTime, dripSet, inputValue>>

SetConcMl(text) ==
    /\ calculationType = "WEIGHT_DOSE"
    /\ concMl' = text
    /\ InputStored
    /\ UNCHANGED <<patientWeight, weightUnit, concMgPerMl, doseRequired, doseUnit, totalVolume,
                   totalTime, dripSet, inputValue>>

SetDoseRequired(text) ==
    /\ calculationType = "WEIGHT_DOSE"
    /\ doseRequired' = text
    /\ InputStored
    /\ UNCHANGED <<patientWeight, weightUnit, concMgPerMl, concMl, doseUnit, totalVolume,
                   totalTime, dripSet, inputValue>>

SetDoseUnit(unit) ==
    /\ calculationType = "WEIGHT_DOSE"
    /\ doseUnit' = unit
    /\ InputStored
    /\ UNCHANGED <<patientWeight, weightUnit, concMgPerMl, concMl, doseRequired, totalVolume,
                   totalTime, dripSet, inputValue>>

SetTotalVolume(text) ==
    /\ calculationType = "DRIP_RATE"
    /\ totalVolume' = text
    /\ InputStored
    /\ UNCHANGED <<patientWeight, weightUnit, concMgPerMl, concMl, doseRequired, doseUnit,
                   totalTime, dripSet, inputValue>>

SetTotalTime(text) ==
    /\ calculationType = "DRIP_RATE"
    /\ totalTime' = text
    /\ InputStored
    /\ UNCHANGED <<patientWeight, weightUnit, concMgPerMl, concMl, doseRequired, doseUnit,
                   totalVolume, dripSet, inputValue>>

SetDripSet(value) ==
    /\ calculationType = "DRIP_RATE"
    /\ dripSet' = value
    /\ InputStored
    /\ UNCHANGED <<patientWeight, weightUnit, concMgPerMl, concMl, doseRequired, doseUnit,
                   totalVolume, totalTime, inputValue>>

SetInputValue(text) ==
    /\ calculationType \in {"CONVERSION_LBS_KG", "CONVERSION_KG_LBS"}
    /\ inputValue' = text
    /\ InputStored
    /\ UNCHANGED <<patientWeight, weightUnit, concMgPerMl, concMl, doseRequired, doseUnit,
                   totalVolume, totalTime, dripSet>>

InitCalc ==
    /\ remembered = NothingRemembered
    /\ ChatIdle
    /\ PageIdle
    /\ protocols = <<>>
    /\ component = "calculator"
    /\ ScorerIdle
    /\ SearchIdle
    /\ QuizIdle
    /\ CalcIdle

NextCalc ==
    \/ HandleCalculate
    \/ ClearInputs
    \/ ClearError
    \/ \E type \in CALCULATION_TYPES : SetCalculationType(type)
    \/ \E text \in PatientWeightTexts : SetPatientWeight(text)
    \/ \E unit \in {"kg", "lbs"} : SetWeightUnit(unit)
    \/ \E text \in ConcMgTexts : SetConcMgPerMl(text)
    \/ \E text \in ConcMlTexts : SetConcMl(text)
    \/ \E text \in DoseTexts : SetDoseRequired(text)
    \/ \E unit \in {"mg_kg", "mcg_kg"} : SetDoseUnit(unit)
    \/ \E text \in TotalVolumeTexts : SetTotalVolume(text)
    \/ \E text \in TotalTimeTexts : SetTotalTime(text)
    \/ \E i \in 1..Len(DRIP_SETS) : SetDripSet(DRIP_SETS[i])
    \/ \E text \in InputValueTexts : SetInputValue(text)

SpecCalc == InitCalc /\ [][NextCalc]_vars

---------------------------------------------------------------------------
(* Properties of the calculator                                            *)

Calculated(type) == calcPc = "calculated" /\ calculationType = type

AllResultsNull == weightDoseResult = Null /\ dripRateResult = Null /\ conversionResult = Null

\* C7 (as claimed): after Calculate in the weight-dose type with a drug concentration of
\* 0 mg over a non-zero volume and a non-zero required dose, the weight-dose result is the
\* text "Cannot calculate volume: Drug concentration is zero but dose is required." and
\* no error is set.
C7_CannotCalculateResult ==
    ( /\ Calculated("WEIGHT_DOSE")
      /\ patientWeight = numSeventy
      /\ concMgPerMl = numZero
      /\ concMl = numOne
      /\ doseRequired \in {numHalf, numTen} )
    => (weightDoseResult = Text(txtCannotCalculate) /\ error = NoError)

\* C7 (as coded): in that case the handler throws before the volume is computed: error is
\* "Drug concentration (mg) cannot be zero if dose is required." and every result is null.
C7_ZeroConcentrationThrows ==
    ( /\ Calculated("WEIGHT_DOSE")
      /\ patientWeight = numSeventy
      /\ concMgPerMl = numZero
      /\ concMl = numOne
      /\ doseRequired \in {numHalf, numTen} )
    => (error = ErrorOf(msgConcMgZero) /\ AllResultsNull)

LeaksNonNumber(result) ==
    /\ ~result.isNull
    /\ (Includes(result.text, txtInfinity) \/ Includes(result.text, txtNaN))

\* C8 (as claimed): whatever the calculation type and the inputs, no result string
\* contains "Infinity" or "NaN".
C8_NoInfinityOrNaN ==
    /\ ~LeaksNonNumber(weightDoseResult)
    /\ ~LeaksNonNumber(dripRateResult)
    /\ ~LeaksNonNumber(conversionResult)

\* the texts that are not a number or are negative
InvalidTexts == {numEmpty, numMinusFive}

\* the inputs the selected calculation type parses
RequiredInputs ==
    IF calculationType = "WEIGHT_DOSE" THEN {patientWeight, concMgPerMl, concMl, doseRequired}
    ELSE IF calculationType = "DRIP_RATE" THEN {totalVolume, totalTime, dripSet}
    ELSE {inputValue}

\* C9: after Calculate, if an input the selected type requires is not a number or is
\* negative, error is set and the three results are null; the invalid-input error is set
\* only then, so an input of zero is accepted.
C9_InvalidInputRejected ==
    calcPc = "calculated" =>
        /\ (RequiredInputs \cap InvalidTexts # {}) => (~error.isNull /\ AllResultsNull)
        /\ (error = ErrorOf(msgInvalidInput)) => (RequiredInputs \cap InvalidTexts # {})

\* Calculate ran on a negative weight, the other inputs valid
C9_Witness ==
    /\ Calculated("WEIGHT_DOSE")
    /\ patientWeight = numMinusFive
    /\ concMgPerMl = numHundred
    /\ concMl = numOne
    /\ doseRequired = numHalf
    /\ error = ErrorOf(msgInvalidInput)
    /\ AllResultsNull

\* Calculate ran on a weight of zero and set a result
C9_WitnessZero ==
    /\ Calculated("WEIGHT_DOSE")
    /\ patientWeight = numZero
    /\ error = NoError
    /\ ~weightDoseResult.isNull

\* the remainder the long division of r by d is left with after count digits
RECURSIVE RemainderAfter(_, _, _)
RemainderAfter(r, d, count) ==
    IF count = 0 \/ r = 0 THEN r
    ELSE IF count = 1 THEN (10 * r) % d
    ELSE LET half == RemainderAfter(r, d, count \div 2)
         IN  IF half = 0 THEN 0 ELSE RemainderAfter(half, d, count - (count \div 2))

\* the digit characters of r/d after the point, r < d, exactly count of them
ExactFraction(r, d, count) ==
    [i \in 1..count |-> Digits[((10 * RemainderAfter(r, d, i - 1)) \div d) + 1]]

\* the numeral after the numeral s
RECURSIVE Successor(_)
Successor(s) ==
    IF Len(s) = 0 THEN <<"1">>
    ELSE IF s[Len(s)] = "9" THEN Successor(SubSeq(s, 1, Len(s) - 1)) \o <<"0">>
    ELSE SubSeq(s, 1, Len(s) - 1) \o <<Digits[DigitValue(s[Len(s)]) + 2]>>

\* s without leading zeros, three digits kept at least
RECURSIVE Stripped(_)
Stripped(s) == IF Len(s) > 3 /\ s[1] = "0" THEN Stripped(Tail(s)) ELSE s

\* (n/d) * 10^z written with two decimals, halves rounded upwards
TwoDecimals(n, d, z) ==
    LET digits == Decimal(n \div d) \o ExactFraction(n % d, d, z + 2)
        roundUp == 2 * RemainderAfter(n % d, d, z + 2) >= d
        hundredths == Stripped(IF roundUp THEN Successor(digits) ELSE digits)
    IN  SubSeq(hundredths, 1, Len(hundredths) - 2) \o <<".">>
        \o SubSeq(hundredths, Len(hundredths) - 1, Len(hundredths))

\* the value (n/d) * 10^z that each valid input text writes
ExactValue(text) ==
    CASE text = numZero -> [n |-> 0, d |-> 1, z |-> 0]
      [] text = numHalf -> [n |-> 1, d |-> 2, z |-> 0]
      [] text = numOne -> [n |-> 1, d |-> 1, z |-> 0]
      [] text = numTen -> [n |-> 10, d |-> 1, z |-> 0]
      [] text = numSeventy -> [n |-> 70, d |-> 1, z |-> 0]
      [] text = numHundred -> [n |-> 100, d |-> 1, z |-> 0]
      [] text = numHuge -> [n |-> 1, d |-> 1, z |-> 308]

Ratio(n, d, z) ==
    [n |-> n \div Gcd(n, d), d |-> d \div Gcd(n, d), z |-> IF n = 0 THEN 0 ELSE z]

\* weight in kg times dose per kg, in mg
ExpectedTotalDose ==
    LET weight == ExactValue(patientWeight)
        dose == ExactValue(doseRequired)
    IN  Ratio(weight.n * dose.n * (IF weightUnit = "lbs" THEN 100000 ELSE 1),
              weight.d * dose.d * (IF weightUnit = "lbs" THEN 220462 ELSE 1)
                  * (IF doseUnit = "mcg_kg" THEN 1000 ELSE 1),
              weight.z + dose.z)

\* total dose divided by (concentration mg / concentration mL)
ExpectedVolume ==
    LET mg == ExactValue(concMgPerMl)
        ml == ExactValue(concMl)
    IN  Ratio(ExpectedTotalDose.n * ml.n * mg.d, ExpectedTotalDose.d * ml.d * mg.n,
              ExpectedTotalDose.z)

ExpectedWeightDoseResult ==
    Text(txtTotalDose \o TwoDecimals(ExpectedTotalDose.n, ExpectedTotalDose.d, ExpectedTotalDose.z)
         \o txtMgVolume \o TwoDecimals(ExpectedVolume.n, ExpectedVolume.d, ExpectedVolume.z)
         \o txtMl)

ValidWeightDoseInputs ==
    /\ patientWeight \in {numZero, numSeventy, numHuge}
    /\ concMgPerMl = numHundred
    /\ concMl = numOne
    /\ doseRequired \in {numZero, numHalf, numTen}

\* C10 (as claimed): after Calculate in the weight-dose type on valid inputs with a
\* non-zero concentration, the result reports total dose = weight in kg x dose per kg
\* (divided by 1000 for mcg/kg) and volume = total dose / (mg / mL), each with two
\* decimals, and no error is set.
C10_WeightDoseFormula ==
    (Calculated("WEIGHT_DOSE") /\ ValidWeightDoseInputs)
    => (weightDoseResult = ExpectedWeightDoseResult /\ error = NoError)

\* C10 (as coded): the same holds while the weight is not the huge one, and 70 kg,
\* 100 mg / 1 mL, 0.5 mg/kg gives 35.00 mg and 0.35 mL.
C10_OrdinaryWeightDose ==
    /\ (Calculated("WEIGHT_DOSE") /\ ValidWeightDoseInputs /\ patientWeight # numHuge)
       => (weightDoseResult = ExpectedWeightDoseResult /\ error = NoError)
    /\ ( /\ Calculated("WEIGHT_DOSE")
         /\ patientWeight = numSeventy /\ weightUnit = "kg"
         /\ concMgPerMl = numHundred /\ concMl = numOne
         /\ doseRequired = numHalf /\ doseUnit = "mg_kg" )
       => weightDoseResult = Text(txtTotalDose \o <<"3","5",".","0","0">> \o txtMgVolume
                                  \o <<"0",".","3","5">> \o txtMl)

\* the value (n/d) * 10^z that each valid volume, time and drip-set text writes
ExactDripValue(text) ==
    CASE text = numZero -> [n |-> 0, d |-> 1, z |-> 0]
      [] text = numTen -> [n |-> 10, d |-> 1, z |-> 0]
      [] text = DRIP_SETS[2] -> [n |-> 15, d |-> 1, z |-> 0]
      [] text = DRIP_SETS[3] -> [n |-> 20, d |-> 1, z |-> 0]
      [] text = numSixty -> [n |-> 60, d |-> 1, z |-> 0]
      [] text = numThousand -> [n |-> 1000, d |-> 1, z |-> 0]
      [] text = numHuge -> [n |-> 1, d |-> 1, z |-> 308]

\* s without leading zeros, one digit kept at least
RECURSIVE StrippedWhole(_)
StrippedWhole(s) == IF Len(s) > 1 /\ s[1] = "0" THEN StrippedWhole(Tail(s)) ELSE s

\* (n/d) * 10^z rounded to a whole number, halves upwards
WholeNumber(n, d, z) ==
    LET digits == Decimal(n \div d) \o ExactFraction(n % d, d, z)
        roundUp == 2 * RemainderAfter(n % d, d, z) >= d
    IN  StrippedWhole(IF roundUp THEN Successor(digits) ELSE digits)

\* volume times drip set divided by time
ExpectedRate ==
    LET volume == ExactDripValue(totalVolume)
        time == ExactDripValue(totalTime)
        set == ExactDripValue(dripSet)
    IN  Ratio(volume.n * set.n * time.d, volume.d * set.d * time.n, volume.z + set.z - time.z)

ExpectedDripRateResult ==
    Text(txtDripRate \o WholeNumber(ExpectedRate.n, ExpectedRate.d, ExpectedRate.z) \o txtGtts)

ValidDripInputs ==
    /\ totalVolume \in {numThousand, numHuge}
    /\ totalTime = numSixty
    /\ \E i \in 1..Len(DRIP_SETS) : dripSet = DRIP_SETS[i]

\* C11 (as claimed): after Calculate in the drip-rate type on valid inputs with a
\* non-zero time, the result reports round(volume x drip set / time) gtts/min and no
\* error is set.
C11_DripRateFormula ==
    (Calculated("DRIP_RATE") /\ ValidDripInputs)
    => (dripRateResult = ExpectedDripRateResult /\ error = NoError)

\* C11 (as coded): the same holds while the volume is not the huge one, and 1000 mL over
\* 60 min with the 60 gtts/mL set gives 1000 gtts/min.
C11_OrdinaryDripRate ==
    /\ (Calculated("DRIP_RATE") /\ ValidDripInputs /\ totalVolume # numHuge)
       => (dripRateResult = ExpectedDripRateResult /\ error = NoError)
    /\ ( /\ Calculated("DRIP_RATE")
         /\ totalVolume = numThousand /\ totalTime = numSixty /\ dripSet = numSixty )
       => dripRateResult = Text(txtDripRate \o <<"1","0","0","0">> \o txtGtts)

---------------------------------------------------------------------------
(* Repeated runs: the search view and the chat route's scorer run again    *)
(* and again, and one earlier run is kept for comparison                   *)

\* POST of the chat route: the last message is the query handed to findRelevantProtocols;
\* an empty query is answered with status 400 before the scorer is reached
ChatPost(words, style) ==
    /\ component = "chat"
    /\ scorerPc = "returned"
    /\ QueryText(words, style) # <<>>
    /\ queryWords' = words
    /\ query' = QueryText(words, style)
    /\ queryKeywords' = <<>>
    /\ scoredProtocols' = <<>>
    /\ relevantProtocols' = <<>>
    /\ scorerPc' = "idle"
    /\ UNCHANGED <<protocols, component, chatVars, pageVars, observerVars, generationVars, calcVars, searchVars, quizVars>>

\* the run that ended last is kept: its inputs and its results
RememberRun ==
    /\ ~remembered.kept
    /\ \/ /\ component = "search"
          /\ searchRan
          /\ remembered' = [kept |-> TRUE, input |-> searchedTerm, filters |-> activeFilters,
                            results |-> searchResults]
       \/ /\ component = "chat"
          /\ scorerPc = "returned"
          /\ remembered' = [kept |-> TRUE, input |-> query, filters |-> <<>>,
                            results |-> relevantProtocols]
    /\ UNCHANGED <<protocols, component, chatVars, pageVars, generationVars, scorerVars, searchVars, quizVars, calcVars>>

\* the filters toggled in the repeated search runs
RepeatFilterIds == {"adult", "trauma"}

\* the search-box contents of the repeated search runs
RepeatTerms == { <<>>, <<"A","r","r","e","s","t">>, <<"z","z","z">> }

\* the queries of the repeated scorer runs
RepeatWordLists == { <<wArrest>>, <<wCardiac>>, <<wEpi, wArrest>>, <<wIs>> }

InitRepeat ==
    /\ remembered = NothingRemembered
    /\ ChatIdle
    /\ PageIdle
    /\ component \in {"search", "chat"}
    /\ IF component = "search"
       THEN /\ protocols \in SearchCorpora
            /\ query = <<>>
            /\ queryWords = <<>>
       ELSE /\ protocols \in { c \in ScorerCorpora : Len(c) <= MaxCorpus }
            /\ queryWords \in RepeatWordLists
            /\ query = QueryText(queryWords, "plain")
    /\ queryKeywords = <<>>
    /\ scoredProtocols = <<>>
    /\ relevantProtocols = <<>>
    /\ scorerPc = "idle"
    /\ SearchIdle
    /\ QuizIdle
    /\ CalcIdle

NextRepeat ==
    \/ MountEffect
    \/ \E t \in RepeatTerms : HandleSearchTermChange(t)
    \/ \E filterId \in RepeatFilterIds : ToggleFilter(filterId)
    \/ ClearAllFilters
    \/ ToggleChatMode
    \/ FindRelevantProtocols
    \/ \E words \in RepeatWordLists : \E style \in {"plain", "padded"} : ChatPost(words, style)
    \/ RememberRun

SpecRepeat == InitRepeat /\ [][NextRepeat]_vars

C14_WitnessScorer ==
    /\ component = "chat"
    /\ remembered.kept
    /\ scorerPc = "returned"
    /\ query = remembered.input
    /\ Len(relevantProtocols) > 0
    /\ relevantProtocols = remembered.results

---------------------------------------------------------------------------
(* Quiz generation runs: requests answered one after the other             *)

\* lengths of the generation runs: absent, negative, zero, small, and Infinity
GenerationLengths == {NoNumber, NumInfinity} \cup { Num(n) : n \in -1..MaxQuizLength }

\* categories of the generation runs: absent, empty, one, two, and one no protocol has
GenerationCategories ==
    { Undef, Arr(<<>>), Arr(<<"adult">>), Arr(<<"trauma", "pediatric">>), Arr(<<"medical">>) }

GenerationRequests == [categories : GenerationCategories, length : GenerationLengths]

\* the entries of the generation runs: two categories, one category, no categories array
GenerationShapes == { shape \in SearchShapes : shape.categories \in
                        { Arr(<<"adult", "pediatric">>), Arr(<<"trauma">>), Undef } }

GenerationCorpora ==
    UNION { { [i \in 1..n |-> Entry(i, f[i], f[i].categories)] : f \in [1..n -> GenerationShapes] }
            : n \in 0..MaxCorpus }

InitQuiz ==
    /\ remembered = NothingRemembered
    /\ ChatIdle
    /\ PageIdle
    /\ protocols \in GenerationCorpora
    /\ component \in {"quizRetry", "quizShuffle"}
    /\ openai \in BOOLEAN
    /\ request = [categories |-> Undef, length |-> NoNumber]
    /\ quizPc = "idle"
    /\ responseStatus = 0
    /\ filteredProtocols = <<>>
    /\ pool = <<>>
    /\ allProtocols = <<>>
    /\ shuffledPool = <<>>
    /\ selected = <<>>
    /\ questions = <<>>
    /\ existingQuestionTexts = <<>>
    /\ attempt = 0
    /\ attemptFailed = FALSE
    /\ slotFailed = <<>>
    /\ generated = NotCalled
    /\ ScorerIdle
    /\ SearchIdle
    /\ CalcIdle

NextQuiz ==
    \/ \E req \in GenerationRequests : RetryPostBegin(req)
    \/ \E req \in GenerationRequests : ShufflePostBegin(req)
    \/ RetryGenerate
    \/ ShuffleGenerate
    \/ AwaitNextRequest

SpecQuiz == InitQuiz /\ [][NextQuiz]_vars

\* every awaited AI call settles (it resolves, or rejects when the client gives up), and
\* the handler then runs to its next await or to its response
SpecQuizFair == SpecQuiz /\ WF_vars(RetryGenerate) /\ WF_vars(ShuffleGenerate)

---------------------------------------------------------------------------
(* Properties of quiz generation                                           *)

\* the ids of the questions the handlers build themselves
LocalQuestionIds == {"mock", "mock-error", "fallback-mock", "fallback"}

\* every slot one of whose AI calls threw, came back empty or came back with invalid JSON
\* holds a question built locally
FailedSlotsHoldFallback ==
    /\ Len(slotFailed) = Len(questions)
    /\ \A i \in 1..Len(questions) : slotFailed[i] => questions[i].id \in LocalQuestionIds

\* the request was answered with a questions list
Returned == quizPc = "responded" /\ responseStatus = 200

\* C15 (as claimed): a slow or failing AI call degrades to a local fallback question: every
\* accepted quiz-generation request eventually returns a questions list, and each slot whose
\* AI call threw, returned an empty response or returned invalid JSON holds a locally built
\* mock or fallback question.
C15_AcceptedRequestReturns ==
    /\ [](component \in {"quizRetry", "quizShuffle"} => FailedSlotsHoldFallback)
    /\ (quizPc = "generating") ~> Returned

\* C15 (as coded), the slots: whatever the AI calls come to, a slot with a failed call holds
\* a local question, in both generators.
C15_FailedSlotsHoldFallback ==
    component \in {"quizRetry", "quizShuffle"} => FailedSlotsHoldFallback

\* C15 (as coded), the response: a request accepted with a finite length is answered with
\* its questions list.
C15_FiniteRequestReturns ==
    (quizPc = "generating" /\ request.length.t = "num") ~> Returned

\* a retrying request with a client was answered, one of its slots after a failed call
C15_WitnessFailedCall ==
    /\ component = "quizRetry"
    /\ openai
    /\ Returned
    /\ Len(questions) = 2
    /\ slotFailed = <<TRUE, FALSE>>
    /\ questions[1].id = "mock-error"
    /\ questions[2].id = "ai"

\* whether a selected protocol carries one of the categories of the request
HasRequestedCategory(p) ==
    /\ p.categories.t = "arr"
    /\ Members(p.categories.v) \cap Members(request.categories.v) # {}

---------------------------------------------------------------------------
(* The protocol collection under every request: the search views, the      *)
(* scorer of the chat route and both quiz generators over one corpus       *)

InitStore ==
    /\ remembered = NothingRemembered
    /\ ChatIdle
    /\ PageIdle
    /\ protocols \in GenerationCorpora
    /\ component \in {"search", "legacySearch", "chat", "quizRetry", "quizShuffle"}
    /\ IF component = "chat"
       THEN /\ queryWords \in RepeatWordLists
            /\ query = QueryText(queryWords, "plain")
       ELSE /\ queryWords = <<>>
            /\ query = <<>>
    /\ queryKeywords = <<>>
    /\ scoredProtocols = <<>>
    /\ relevantProtocols = <<>>
    /\ scorerPc = "idle"
    /\ pagePc = (IF component = "search" THEN "rendered" ELSE "mounted")
    /\ searchTerm = <<>>
    /\ activeFilters = <<>>
    /\ searchResults = <<>>
    /\ isSearching = FALSE
    /\ isChatMode = FALSE
    /\ searchRan = FALSE
    /\ searchedTerm = <<>>
    /\ filteredByCategories = <<>>
    /\ fuseInvoked = FALSE
    /\ openai \in (IF component \in {"quizRetry", "quizShuffle"} THEN BOOLEAN ELSE {FALSE})
    /\ request = [categories |-> Undef, length |-> NoNumber]
    /\ quizPc = "idle"
    /\ responseStatus = 0
    /\ filteredProtocols = <<>>
    /\ pool = <<>>
    /\ allProtocols = <<>>
    /\ shuffledPool = <<>>
    /\ selected = <<>>
    /\ questions = <<>>
    /\ existingQuestionTexts = <<>>
    /\ attempt = 0
    /\ attemptFailed = FALSE
    /\ slotFailed = <<>>
    /\ generated = NotCalled
    /\ CalcIdle

NextStore ==
    \/ MountEffect
    \/ \E t \in RepeatTerms : HandleSearchTermChange(t)
    \/ \E filterId \in CategoryIds : ToggleFilter(filterId)
    \/ ClearAllFilters
    \/ ToggleChatMode
    \/ \E t \in RepeatTerms : LegacySearchTermChange(t)
    \/ HandleSearch
    \/ FindRelevantProtocols
    \/ \E words \in RepeatWordLists : ChatPost(words, "plain")
    \/ \E req \in GenerationRequests : RetryPostBegin(req)
    \/ \E req \in GenerationRequests : ShufflePostBegin(req)
    \/ RetryGenerate
    \/ ShuffleGenerate
    \/ AwaitNextRequest

SpecStore == InitStore /\ [][NextStore]_vars

\* a loaded list has one protocol per key of the mapping, in the mapping's order, its id
\* that key, and the ids are pairwise distinct
LoadedOnePerKey(list) ==
    /\ Len(list) = Len(protocols)
    /\ \A i \in 1..Len(list) : list[i].id = protocols[i].key
    /\ \A i, j \in 1..Len(list) : i # j => list[i].id # list[j].id

\* the list as loaded, where a state holds it unfiltered: the search view without filters,
\* and the shuffle-and-pick generator's pool without categories
LoadedListsOnePerKey ==
    /\ (component = "search" /\ searchRan /\ activeFilters = <<>>)
       => LoadedOnePerKey(filteredByCategories)
    /\ ( /\ component = "quizShuffle"
         /\ quizPc # "idle"
         /\ SchemaValid(request)
         /\ Len(CategoriesOrDefault(request)) = 0 )
       => LoadedOnePerKey(pool)

\* C17: the loaded protocol list has exactly one protocol per key of the static mapping, its
\* id equal to that key, so ids are pairwise distinct; every rebuild of the list (each run
\* of the search effect, each quiz request) yields that same sequence, and no operation
\* adds, updates or deletes an entry of the mapping.
C17_OneProtocolPerKey ==
    /\ []LoadedListsOnePerKey
    /\ [][protocols' = protocols]_vars

\* the search view has loaded and shown, unfiltered, two protocols of the same name
C17_Witness ==
    /\ component = "search"
    /\ searchRan
    /\ activeFilters = <<>>
    /\ Trim(searchedTerm) = <<>>
    /\ Len(protocols) = 2
    /\ protocols[1].name = protocols[2].name
    /\ Ids(searchResults) = AllKeys

\* the place in the mapping of the protocol with the given id
PlaceOfId(id) == CHOOSE i \in 1..Len(protocols) : protocols[i].key = id

\* a list of protocols of the mapping in the mapping's order
InMappingOrder(list) ==
    /\ \A i \in 1..Len(list) : \E k \in 1..Len(protocols) : protocols[k].key = list[i].id
    /\ \A i, j \in 1..Len(list) : i < j => PlaceOfId(list[i].id) < PlaceOfId(list[j].id)

\* what a request finds when it reads the collection: the mapping's entries in the
\* mapping's order, whatever requests were served before
CollectionAsLoaded ==
    /\ ( /\ component = "quizShuffle"
         /\ quizPc # "idle"
         /\ SchemaValid(request) )
       => /\ Len(CategoriesOrDefault(request)) # 0 => allProtocols = AllProtocols(protocols)
          /\ Len(CategoriesOrDefault(request)) = 0 => pool = AllProtocols(protocols)
          /\ InMappingOrder(pool)
    /\ (component = "quizRetry" /\ quizPc # "idle") => InMappingOrder(filteredProtocols)
    /\ (component = "chat" /\ scorerPc = "returned" /\ queryKeywords # <<>>)
       => /\ Len(scoredProtocols) = Len(protocols)
          /\ \A i \in 1..Len(protocols) : scoredProtocols[i].protocol = protocols[i]
    /\ (component = "search" /\ searchRan) => InMappingOrder(filteredByCategories)

\* C18: no search, category filter, context-scoring or quiz-generation request changes the
\* content or the order of the protocol collection a later request sees: the mapping never
\* changes, and every request finds the collection in the mapping's order, the in-place
\* shuffle of quiz generation and the sort of the scorer having reordered arrays of their
\* own request only.
C18_RequestsLeaveCollection ==
    /\ [][protocols' = protocols]_vars
    /\ []CollectionAsLoaded

\* a shuffle-and-pick request without categories was answered after its sort had reversed
\* its array of two protocols, and the route awaits the next request
C18_Witness ==
    /\ component = "quizShuffle"
    /\ quizPc = "idle"
    /\ Len(protocols) = 2
    /\ Len(allProtocols) = 2
    /\ allProtocols # AllProtocols(protocols)

\* a shuffle-and-pick request with categories is served while the array an earlier request
\* reversed is gone
C18_WitnessLaterRequest ==
    /\ component = "quizShuffle"
    /\ quizPc = "generating"
    /\ Len(CategoriesOrDefault(request)) # 0
    /\ Len(protocols) = 2
    /\ Len(pool) = 2
    /\ allProtocols = AllProtocols(protocols)

---------------------------------------------------------------------------
(* The pages' AI-backed submits: Start Quiz of the quiz page and the chat   *)
(* form of Home                                                            *)

MaxOutstanding == 2

msgSelectCategory == "Please select at least one category."

\* the quiz page of app/quiz/page.tsx, or the earlier page with the fixed quiz lengths
OnQuizPage == component \in {"quizPage", "quizPageLegacy"}

Legacy == component = "quizPageLegacy"

NoCategoryNever == FALSE

\* selectedCategories.length === 0
NoCategory == Len(selectedCategories) = 0

StartEnabledAlways == quizState = "setup" /\ (Legacy => ~NoCategory)

\* the Start Quiz button: rendered on the setup screen, disabled={isLoading}; on the earlier
\* page disabled={isLoading || selectedCategories.length === 0}
StartEnabled == quizState = "setup" /\ ~isLoading /\ (Legacy => ~NoCategory)

\* toggleCategory, from a checkbox of the setup screen; the earlier page renders its
\* loading screen in place of the setup screen while isLoading
ToggleCategory(catId) ==
    /\ OnQuizPage
    /\ quizState = "setup"
    /\ Legacy => ~isLoading
    /\ selectedCategories' = Toggled(selectedCategories, catId)
    /\ UNCHANGED <<protocols, component, chatVars, answerVars, observerVars, generationVars, scorerVars, searchVars,
                   quizVars, calcVars, quizState, pageQuestions, isLoading, pageError, fetches,
                   input, isChatLoading, chatRequests>>

\* startQuiz up to its await: the error without a category, else the request is sent; the
\* earlier page also drops the feedback and the selected option
StartQuiz ==
    /\ OnQuizPage
    /\ StartEnabled
    /\ fetches < MaxOutstanding
    /\ IF NoCategory
       THEN /\ pageError' = msgSelectCategory
            /\ UNCHANGED <<isLoading, fetches, showFeedback, selectedOption>>
       ELSE /\ pageError' = ""
            /\ isLoading' = TRUE
            /\ fetches' = fetches + 1
            /\ showFeedback' = IF Legacy THEN FALSE ELSE showFeedback
            /\ selectedOption' = IF Legacy THEN "" ELSE selectedOption
    /\ UNCHANGED <<protocols, component, chatVars, observerVars, generationVars, scorerVars, searchVars,
                   quizVars, calcVars, quizState, selectedCategories, pageQuestions,
                   input, isChatLoading, chatRequests, currentQuestionIndex, userAnswers,
                   score, settled>>

MaxQuestions == 2       \* longest questions list of a response

\* the ids of the options of every question
OptionIds == {"1", "2"}

\* the questions of the responses, with the fields the page reads; all of them are
\* multiple-choice questions
PageQuestions == { [id |-> "q1", correctAnswerId |-> "1"], [id |-> "q2", correctAnswerId |-> "2"] }

\* what the awaited fetch and res.json() come to: a 200 body with a questions list (which
\* may be empty), a 200 body without one, an error status with its error body, or a throw
FetchOutcomes ==
    { [kind |-> "questions", list |-> list] :
        list \in UNION { [1..n -> PageQuestions] : n \in 0..MaxQuestions } }
    \cup { [kind |-> "noQuestions", list |-> <<>>], [kind |-> "errorStatus", list |-> <<>>],
           [kind |-> "threw", list |-> <<>>] }

\* the messages startQuiz sets after its request
FetchErrors ==
    { "Failed to load questions", "An error occurred generating the quiz.",
      "Failed to generate quiz questions.",
      "An unexpected error occurred while fetching questions." }

\* startQuiz of app/quiz/page.tsx after its await: if (data.questions) ... else ... catch
Settled(outcome) ==
    /\ IF outcome.kind = "questions"
       THEN /\ pageQuestions' = outcome.list
            /\ quizState' = "in-progress"
            /\ UNCHANGED pageError
       ELSE /\ pageError' = IF outcome.kind = "threw"
                            THEN "An error occurred generating the quiz."
                            ELSE "Failed to load questions"
            /\ UNCHANGED <<pageQuestions, quizState>>
    /\ UNCHANGED <<currentQuestionIndex, userAnswers, score>>

\* startQuiz of the earlier page after its await: an error status throws, every 200 body
\* starts the quiz, with data.questions as it is; questions undefined is the list <<>>
\* here, and settled tells the two apart
LegacySettled(outcome) ==
    IF outcome.kind \in {"questions", "noQuestions"}
    THEN /\ pageQuestions' = outcome.list
         /\ currentQuestionIndex' = 0
         /\ userAnswers' = <<>>
         /\ score' = 0
         /\ quizState' = "in-progress"
         /\ UNCHANGED pageError
    ELSE /\ pageError' = IF outcome.kind = "threw"
                         THEN "An unexpected error occurred while fetching questions."
                         ELSE "Failed to generate quiz questions."
         /\ pageQuestions' = <<>>
         /\ UNCHANGED <<quizState, currentQuestionIndex, userAnswers, score>>

\* startQuiz after its await: the questions or the error, and the finally block
FetchSettles(outcome) ==
    /\ OnQuizPage
    /\ fetches > 0
    /\ fetches' = fetches - 1
    /\ isLoading' = FALSE
    /\ settled' = outcome.kind
    /\ IF Legacy THEN LegacySettled(outcome) ELSE Settled(outcome)
    /\ UNCHANGED <<protocols, component, chatVars, observerVars, generationVars, scorerVars, searchVars,
                   quizVars, calcVars, selectedCategories, input, isChatLoading, chatRequests,
                   selectedOption, showFeedback>>

\* the question screen is rendered: quizState === 'in-progress' && questions[currentQuestionIndex]
QuestionScreen ==
    /\ quizState = "in-progress"
    /\ currentQuestionIndex + 1 <= Len(pageQuestions)

\* the completion screen is rendered: neither the setup screen nor the question screen; on
\* the earlier page it is the screen of 'completed', and 'in-progress' without a current
\* question renders no button
CompletionScreen ==
    IF Legacy THEN quizState = "completed" ELSE quizState # "setup" /\ ~QuestionScreen

SubmitEnabledAlways == selectedOption # ""

\* the Submit button: rendered while there is no feedback, disabled={!selectedOption}
SubmitEnabled == ~showFeedback /\ selectedOption # ""

\* setSelectedOption, from a radio item of the question screen, disabled={showFeedback}
SelectOption(optionId) ==
    /\ OnQuizPage
    /\ QuestionScreen
    /\ ~showFeedback
    /\ optionId # selectedOption
    /\ selectedOption' = optionId
    /\ UNCHANGED <<protocols, component, chatVars, observerVars, generationVars, scorerVars,
                   searchVars, quizVars, calcVars, quizState, selectedCategories, pageQuestions,
                   isLoading, pageError, fetches, input, isChatLoading, chatRequests,
                   currentQuestionIndex, showFeedback, userAnswers, score, settled>>

\* handleAnswerSubmit, from the Submit button
HandleAnswerSubmit ==
    /\ OnQuizPage
    /\ QuestionScreen
    /\ SubmitEnabled
    /\ LET currentQuestion == pageQuestions[currentQuestionIndex + 1]
           isCorrect == selectedOption = currentQuestion.correctAnswerId
       IN  /\ userAnswers' = Append(userAnswers,
                                    [questionId |-> currentQuestion.id,
                                     selectedAnswerId |-> selectedOption,
                                     isCorrect |-> isCorrect])
           /\ score' = IF isCorrect THEN score + 1 ELSE score
    /\ showFeedback' = TRUE
    /\ UNCHANGED <<protocols, component, chatVars, observerVars, generationVars, scorerVars,
                   searchVars, quizVars, calcVars, quizState, selectedCategories, pageQuestions,
                   isLoading, pageError, fetches, input, isChatLoading, chatRequests,
                   currentQuestionIndex, selectedOption, settled>>

\* handleNextQuestion, from the Next / Finish button, which is rendered with the feedback
HandleNextQuestion ==
    /\ OnQuizPage
    /\ QuestionScreen
    /\ showFeedback
    /\ showFeedback' = FALSE
    /\ selectedOption' = ""
    /\ IF currentQuestionIndex + 1 < Len(pageQuestions)
       THEN /\ currentQuestionIndex' = currentQuestionIndex + 1
            /\ UNCHANGED quizState
       ELSE /\ quizState' = "completed"
            /\ UNCHANGED currentQuestionIndex
    /\ UNCHANGED <<protocols, component, chatVars, observerVars, generationVars, scorerVars,
                   searchVars, quizVars, calcVars, selectedCategories, pageQuestions,
                   isLoading, pageError, fetches, input, isChatLoading, chatRequests,
                   userAnswers, score, settled>>

\* resetQuiz, from the Take Another Quiz button of the completion screen; the earlier
\* page clears the categories too
ResetQuiz ==
    /\ OnQuizPage
    /\ CompletionScreen
    /\ quizState' = "setup"
    /\ pageQuestions' = <<>>
    /\ currentQuestionIndex' = 0
    /\ selectedOption' = ""
    /\ showFeedback' = FALSE
    /\ userAnswers' = <<>>
    /\ score' = 0
    /\ pageError' = ""
    /\ selectedCategories' = IF Legacy THEN <<>> ELSE selectedCategories
    /\ UNCHANGED <<protocols, component, chatVars, observerVars, generationVars, scorerVars,
                   searchVars, quizVars, calcVars, isLoading, fetches, settled,
                   input, isChatLoading, chatRequests>>

\* handleChatInputChange, from the chat box, which is disabled={isChatLoading}
HandleChatInputChange(text) ==
    /\ component = "search"
    /\ pagePc = "mounted"
    /\ isChatMode
    /\ ~isChatLoading
    /\ text # input
    /\ input' = text
    /\ UNCHANGED <<protocols, component, chatVars, answerVars, observerVars, generationVars, scorerVars, searchVars,
                   quizVars, calcVars, quizState, selectedCategories, pageQuestions, isLoading,
                   pageError, fetches, isChatLoading, chatRequests>>

\* the chat form is submitted, by the Send button (disabled while isChatLoading or while the
\* input is blank) or by Enter in the chat box (disabled while isChatLoading): useChat sends
\* the input, empties it and holds isChatLoading true until the response has ended
SubmitChat(byButton) ==
    /\ component = "search"
    /\ pagePc = "mounted"
    /\ isChatMode
    /\ ~isChatLoading
    /\ byButton => Trim(input) # <<>>
    /\ input # <<>>
    /\ chatRequests < MaxOutstanding
    /\ chatRequests' = chatRequests + 1
    /\ isChatLoading' = TRUE
    /\ input' = <<>>
    /\ UNCHANGED <<protocols, component, chatVars, answerVars, observerVars, generationVars, scorerVars, searchVars,
                   quizVars, calcVars, quizState, selectedCategories, pageQuestions, isLoading,
                   pageError, fetches>>

\* the chat response has ended, or failed
ChatSettles ==
    /\ component = "search"
    /\ chatRequests > 0
    /\ chatRequests' = chatRequests - 1
    /\ isChatLoading' = FALSE
    /\ UNCHANGED <<protocols, component, chatVars, answerVars, observerVars, generationVars, scorerVars, searchVars,
                   quizVars, calcVars, quizState, selectedCategories, pageQuestions, isLoading,
                   pageError, fetches, input>>

\* what is typed into the chat box
ChatInputs == { <<>>, <<" ">>, <<"e","p","i">> }

InitPages ==
    /\ remembered = NothingRemembered
    /\ ChatIdle
    /\ PageIdle
    /\ protocols \in { c \in GenerationCorpora : Len(c) <= 1 }
    /\ component \in {"quizPage", "quizPageLegacy", "search"}
    /\ pagePc = (IF component = "search" THEN "rendered" ELSE "mounted")
    /\ searchTerm = <<>>
    /\ activeFilters = <<>>
    /\ searchResults = <<>>
    /\ isSearching = FALSE
    /\ isChatMode = FALSE
    /\ searchRan = FALSE
    /\ searchedTerm = <<>>
    /\ filteredByCategories = <<>>
    /\ fuseInvoked = FALSE
    /\ ScorerIdle
    /\ QuizIdle
    /\ CalcIdle

NextPages ==
    \/ \E catId \in CategoryIds : ToggleCategory(catId)
    \/ StartQuiz
    \/ \E outcome \in FetchOutcomes : FetchSettles(outcome)
    \/ \E optionId \in OptionIds : SelectOption(optionId)
    \/ HandleAnswerSubmit
    \/ HandleNextQuestion
    \/ ResetQuiz
    \/ MountEffect
    \/ ToggleChatMode
    \/ \E text \in ChatInputs : HandleChatInputChange(text)
    \/ \E byButton \in BOOLEAN : SubmitChat(byButton)
    \/ ChatSettles

SpecPages == InitPages /\ [][NextPages]_vars

\* every request the page sends settles: the response arrives, or the fetch rejects
SpecPagesFair == SpecPages /\ WF_vars(\E outcome \in FetchOutcomes : FetchSettles(outcome))

\* C20: at most one AI-backed call is outstanding per user submit: while a quiz-generation
\* request is pending isLoading is true and the quiz page sends no second request to
\* /api/quiz/generate, and while a chat request is pending isChatLoading is true and no
\* second chat submit is sent.
C20_OneOutstandingCall ==
    /\ fetches <= 1
    /\ fetches = 1 => isLoading
    /\ chatRequests <= 1
    /\ chatRequests = 1 => isChatLoading

\* a quiz request is pending after an earlier one had failed
C20_Witness ==
    /\ component = "quizPage"
    /\ fetches = 1
    /\ isLoading
    /\ quizState = "setup"
    /\ Len(selectedCategories) = 2

\* a chat request is pending while the page shows the search view again
C20_WitnessChat ==
    /\ component = "search"
    /\ chatRequests = 1
    /\ isChatLoading
    /\ ~isChatMode

---------------------------------------------------------------------------
(* The chat route: POST /api/chat                                          *)

txtProtocol == <<"P","r","o","t","o","c","o","l"," ">>
txtSourceOpen == <<" ","(","S","o","u","r","c","e",":"," ">>
txtSourceClose == <<")",":","\n">>

\* the separator between two protocols of the context
txtContextSeparator == <<"\n","\n","-","-","-","\n","\n">>

\* the last line of the instructions that open the system prompt; the instructions are
\* the same text for every request
txtRelevantProtocols == <<"R","e","l","e","v","a","n","t"," ","P","r","o","t","o","c","o","l",
    "s",":","\n">>

txtNoProtocols == <<"N","o"," ","s","p","e","c","i","f","i","c"," ","p","r","o","t","o","c",
    "o","l","s"," ","f","o","u","n","d"," ","m","a","t","c","h","i","n","g"," ","t","h","e",
    " ","q","u","e","r","y",".">>

\* `Protocol ${p.name} (Source: ${p.source_file}):\n${p.content}`
ProtocolText(p) ==
    txtProtocol \o p.name \o txtSourceOpen \o p.source_file \o txtSourceClose \o p.content

\* relevantProtocols.map(...).join("\n\n---\n\n")
ProtocolContext(relevant) ==
    Join([i \in 1..Len(relevant) |-> ProtocolText(relevant[i])], txtContextSeparator)

\* a ?? b on strings: a string is never nullish
OrElseNullish(a, b) == a

\* a || b on strings: the empty string is falsy
OrElse(a, b) == IF a = <<>> THEN b ELSE a

\* the system prompt over the context
SystemPrompt(protocolContext) ==
    txtRelevantProtocols \o OrElse(protocolContext, txtNoProtocols)

\* findRelevantProtocols(query): its returned list
RelevantTo(data, q) ==
    IF Len(QueryKeywords(q)) = 0 THEN <<>>
    ELSE TopProtocols(SortedResults(ScoreAll(data, QueryKeywords(q))))

Message(role, content) == [role |-> role, content |-> content]

\* the request answered without reaching the scorer: it has no query and no prompt
ChatRejected(status) ==
    /\ chatStatus' = status
    /\ systemPrompt' = <<>>
    /\ query' = <<>>
    /\ queryWords' = <<>>
    /\ queryKeywords' = <<>>
    /\ scoredProtocols' = <<>>
    /\ relevantProtocols' = <<>>
    /\ scorerPc' = "idle"

\* POST with the parsed body b.body, whose last message was assembled from b.words;
\* streamed tells whether streamText answered or threw
ChatRoutePost(b, streamed) ==
    /\ component = "chat"
    /\ IF ~mistral
       THEN /\ ChatRejected(500)
            /\ messages' = <<>>
       ELSE IF b.body.t # "arr"
       THEN /\ ChatRejected(400)
            /\ messages' = <<>>
       ELSE /\ messages' = b.body.v
            /\ IF Len(b.body.v) = 0
               THEN ChatRejected(400)
               ELSE IF b.body.v[Len(b.body.v)].content = <<>>
               THEN ChatRejected(400)
               ELSE /\ query' = b.body.v[Len(b.body.v)].content
                    /\ queryWords' = b.words
                    /\ queryKeywords' = QueryKeywords(query')
                    /\ scoredProtocols' = IF Len(queryKeywords') = 0 THEN <<>>
                                          ELSE ScoreAll(protocols, queryKeywords')
                    /\ relevantProtocols' = TopProtocols(SortedResults(scoredProtocols'))
                    /\ scorerPc' = "returned"
                    /\ systemPrompt' = SystemPrompt(ProtocolContext(relevantProtocols'))
                    /\ chatStatus' = IF streamed THEN 200 ELSE 500
    /\ UNCHANGED <<protocols, component, mistral, pageVars, observerVars, generationVars,
                   searchVars, quizVars, calcVars>>

\* the queries of the chat requests
ChatWordLists == RepeatWordLists \cup { <<>>, ExampleWords }

\* the messages before the last one
EarlierMessages == { <<>>, <<Message("user", wEpi), Message("assistant", txtStroke)>> }

\* the bodies of the chat requests: no messages array, an empty one, and conversations
\* ending in a query
ChatBodies ==
    { [body |-> Undef, words |-> <<>>], [body |-> Arr(<<>>), words |-> <<>>] }
    \cup { [body |-> Arr(Append(e, Message("user", QueryText(w, style)))), words |-> w] :
           e \in EarlierMessages, w \in ChatWordLists, style \in {"plain", "padded"} }

\* the corpora of the chat requests: the short ones, and the longest ones that repeat
\* one protocol after their first two
ChatCorpora ==
    { c \in ScorerCorpora :
        \/ Len(c) <= MaxCorpus
        \/ /\ Len(c) = MaxProtocols
           /\ \A i \in 3..Len(c) : c[i].name = txtCardiacArrest }

InitChat ==
    /\ remembered = NothingRemembered
    /\ mistral \in BOOLEAN
    /\ messages = <<>>
    /\ systemPrompt = <<>>
    /\ chatStatus = 0
    /\ PageIdle
    /\ component = "chat"
    /\ protocols \in ChatCorpora
    /\ ScorerIdle
    /\ SearchIdle
    /\ QuizIdle
    /\ CalcIdle

NextChat == \E b \in ChatBodies : \E streamed \in BOOLEAN : ChatRoutePost(b, streamed)

SpecChat == InitChat /\ [][NextChat]_vars

---------------------------------------------------------------------------
(* Properties of the chat route                                            *)

\* the request answered last called findRelevantProtocols and built its system prompt
Prompted ==
    /\ chatStatus # 0
    /\ scorerPc = "returned"

\* C21: in the chat POST handler the system prompt is built from exactly the protocols
\* that findRelevantProtocols returns for the content of the last message, at most five
\* and in rank order, each with its name, source and content; when that list is empty the
\* prompt carries "No specific protocols found matching the query." in their place.
C21_PromptFromRelevantProtocols ==
    Prompted =>
        /\ Len(messages) > 0
        /\ query = messages[Len(messages)].content
        /\ relevantProtocols = RelevantTo(protocols, query)
        /\ Len(relevantProtocols) <= TopCount
        /\ systemPrompt = txtRelevantProtocols \o
              ( IF Len(relevantProtocols) = 0 THEN txtNoProtocols
                ELSE ProtocolContext(relevantProtocols) )

\* C21 witness: a prompt built over five of six scoring protocols
C21_Witness ==
    /\ Prompted
    /\ Len(protocols) > TopCount
    /\ Len(relevantProtocols) = TopCount
    /\ \A i \in 1..Len(protocols) : scoredProtocols[i].score > 0

\* C21 witness: a prompt built when no protocol scores
C21_WitnessPlaceholder ==
    /\ Prompted
    /\ Len(protocols) > 0
    /\ Len(queryKeywords) > 0
    /\ Len(relevantProtocols) = 0
    /\ systemPrompt = txtRelevantProtocols \o txtNoProtocols

---------------------------------------------------------------------------
(* Properties of generateQuizQuestion and of the retrying generator        *)

\* id.startsWith("ai-"), for the ids of the model: "ai" stands for the ids made by
\* `ai-${Date.now()}-...`, "custom" and "number" for an id the AI's JSON brought along
StartsWithAi(id) == id = "ai"

\* id.startsWith("mock-"): the ids made by `mock-${...}` and `mock-error-${...}`
StartsWithMock(id) == id \in {"mock", "mock-error"}

\* the question returned by the last call was built from a parsed AI response
BuiltFromAiResponse == generated.client /\ generated.outcome.kind = "jsonObject"

\* the question returned by the last call is a local mock: there is no client, or the call
\* or the processing of its response threw
LocalMock == ~generated.client \/ generated.outcome.kind # "jsonObject"

\* C22: the id prefix of a question returned by generateQuizQuestion identifies its
\* origin: the id starts with "ai-" exactly when the question was built from a parsed AI
\* response, whatever fields it has, and with "mock-" exactly when it is a local mock.
C22_IdPrefixIdentifiesOrigin ==
    generated.called =>
        /\ StartsWithAi(generated.question.id) <=> BuiltFromAiResponse
        /\ StartsWithMock(generated.question.id) <=> LocalMock

\* C22, the part that holds: an "ai-" id is carried by AI-built questions only, and every
\* local mock carries a "mock-" id
C22_LocalMocksCarryMockPrefix ==
    generated.called =>
        /\ StartsWithAi(generated.question.id) => BuiltFromAiResponse
        /\ LocalMock => StartsWithMock(generated.question.id)

\* the retrying generator answered the request with a questions list
RetryAnswered ==
    /\ component = "quizRetry"
    /\ quizPc = "responded"
    /\ responseStatus = 200

\* C23: in the retrying quiz generator every request that passes the input check
\* (categories a non-empty array, length a truthy number) and is not answered 404 returns
\* a questions list with exactly `length` entries.
C23_ReturnsLengthQuestions ==
    RetryAnswered =>
        /\ request.length.t = "num"
        /\ Len(questions) = request.length.v

\* C23, the part that holds: a request with a length of 1 or more returns that many
\* questions
C23_PositiveLengthQuestions ==
    (RetryAnswered /\ request.length.t = "num" /\ request.length.v >= 1) =>
        Len(questions) = request.length.v

\* a question with text that is not a duplicate AI question
Acceptable(q, texts) ==
    /\ q.questionText # ""
    /\ ~(StartsWithAi(q.id) /\ SeqIncludes(texts, q.questionText))

\* the same, for a question whose id is a string: startsWith is called on the id
AcceptableAsCoded(q, texts) == Acceptable(q, texts) /\ q.id # "number"

\* the last question of the list is a fallback mock
EndsWithFallback(list) == Len(list) > 0 /\ list[Len(list)].id = "fallback-mock"

\* one attempt of a slot, where ok tells whether its question is accepted: an accepted
\* question fills the slot and ends its attempts, the third attempt not accepted pushes the
\* fallback mock, and nothing else does
AttemptFillsSlot(ok) ==
    /\ attempt < MaxAttemptsPerQuestion
    /\ ok => /\ questions' # questions
             /\ questions'[Len(questions')] = generated'.question
             /\ attempt' = 0
    /\ (~ok /\ attempt + 1 < MaxAttemptsPerQuestion) =>
             /\ questions' = questions
             /\ attempt' = attempt + 1
    /\ (~ok /\ attempt + 1 = MaxAttemptsPerQuestion) =>
             /\ questions' # questions
             /\ EndsWithFallback(questions')
             /\ attempt' = 0
    /\ (questions' # questions /\ EndsWithFallback(questions')) <=>
             (~ok /\ attempt + 1 = MaxAttemptsPerQuestion)

\* the retrying generator is in its generation loop
RetryGenerating == component = "quizRetry" /\ quizPc = "generating"

\* a request with a length of 1 or more has made at most 3 x length calls
CallsBounded ==
    (component = "quizRetry" /\ request.length.t = "num" /\ request.length.v >= 1) =>
        generated.calls <= MaxAttemptsPerQuestion * request.length.v

\* C24: in the retrying quiz generator each slot makes at most 3 calls of
\* generateQuizQuestion; the slot is filled by the first attempt that yields a question
\* with text that is not a duplicate AI question, later attempts for the slot are not
\* made, and a "fallback-mock-" question is pushed for the slot if and only if none of the
\* 3 attempts was accepted; so a request makes at most 3 x length attempts.
C24_FirstAcceptableAttemptFillsSlot ==
    /\ [][RetryGenerating =>
            AttemptFillsSlot(Acceptable(generated'.question, existingQuestionTexts))]_vars
    /\ []CallsBounded

\* C24, the part that holds: at most 3 calls per slot and 3 x length per request, and the
\* slot is filled by the first attempt whose question has text, a string for its id, and
\* is not a duplicate AI question; the fallback mock is pushed exactly when the third
\* attempt ends without one
C24_FirstAcceptedAttemptFillsSlot ==
    /\ [][RetryGenerating =>
            AttemptFillsSlot(AcceptableAsCoded(generated'.question, existingQuestionTexts))]_vars
    /\ []CallsBounded

\* the question was built from an AI response: it has the "ai-" id or the id the response
\* brought along (the mocks and the fallback have ids of their own)
AiGenerated(q) == q.id \in {"ai", "custom", "number"}

\* the texts of the questions of the list whose id starts with "ai-", in their order
AiPrefixedTexts(list) ==
    LET kept == SelectSeq(list, LAMBDA q : StartsWithAi(q.id))
    IN  [i \in 1..Len(kept) |-> kept[i].questionText]

NoRepetition(seq) == \A i, j \in 1..Len(seq) : seq[i] = seq[j] => i = j

\* a request of the retrying generator with a finite length is being generated or answered
RetryFiniteRun ==
    /\ component = "quizRetry"
    /\ quizPc \in {"generating", "responded"}
    /\ request.length.t = "num"

\* existingQuestionTexts holds the texts of the "ai-" questions generated so far, once each
TextsOfAiPrefixedQuestions ==
    /\ existingQuestionTexts = AiPrefixedTexts(questions)
    /\ NoRepetition(existingQuestionTexts)

\* C25: in the retrying quiz generator, at every point of the generation loop
\* existingQuestionTexts holds exactly the texts of the "ai-" questions already in
\* generatedQuestions, without repetition; hence no two AI-generated questions of one
\* response share the same questionText.
C25_NoTwoAiQuestionsShareText ==
    RetryFiniteRun =>
        /\ TextsOfAiPrefixedQuestions
        /\ \A i, j \in 1..Len(questions) :
              ( /\ AiGenerated(questions[i])
                /\ AiGenerated(questions[j])
                /\ questions[i].questionText = questions[j].questionText ) => i = j

\* C25, the part that holds: existingQuestionTexts is the texts of the "ai-" questions,
\* once each, so no two questions under an "ai-" id share their text
C25_NoTwoAiPrefixedShareText ==
    RetryFiniteRun =>
        /\ TextsOfAiPrefixedQuestions
        /\ \A i, j \in 1..Len(questions) :
              ( /\ StartsWithAi(questions[i].id)
                /\ StartsWithAi(questions[j].id)
                /\ questions[i].questionText = questions[j].questionText ) => i = j

---------------------------------------------------------------------------
(* Properties of the quiz page                                             *)

\* quizState goes from a to b in the step
Goes(a, b) == quizState = a /\ quizState' = b

\* the response with a questions list arrives on the setup screen
StartedByResponse ==
    /\ Goes("setup", "in-progress")
    /\ fetches' = fetches - 1
    /\ settled' = "questions"

\* Next is pressed on the last question, after its answer was submitted
FinishedByNext ==
    /\ Goes("in-progress", "completed")
    /\ showFeedback
    /\ currentQuestionIndex + 1 = Len(pageQuestions)
    /\ Len(userAnswers) = Len(pageQuestions)

\* C26: on the quiz page quizState changes only along setup -> in-progress (a generation
\* response with a questions list arrives), in-progress -> completed (Next pressed on the
\* last question after its answer was submitted) and completed -> setup (reset); no other
\* transition is reachable by any sequence of user actions and server responses.
C26_QuizStateTransitions ==
    [][quizState' # quizState =>
          \/ StartedByResponse
          \/ FinishedByNext
          \/ Goes("completed", "setup")]_vars

\* C26, the part that holds: the only other transitions are the reset from 'in-progress'
\* with an empty questions list, where the completion screen is rendered, and the start of
\* the earlier page on a body without a questions list
C26_TransitionsOrResetOfEmptyQuiz ==
    [][quizState' # quizState =>
          \/ StartedByResponse
          \/ FinishedByNext
          \/ Goes("completed", "setup")
          \/ Goes("in-progress", "setup") /\ pageQuestions = <<>> /\ ~Legacy
          \/ Goes("setup", "in-progress") /\ settled' = "noQuestions" /\ Legacy]_vars

\* C27: whenever quizState is 'in-progress' the questions list is non-empty and
\* 0 <= currentQuestionIndex < questions.length, for every sequence of start, submit, next
\* and reset actions and every questions list the server may return; so the current
\* question is defined when it is rendered.
C27_CurrentQuestionDefined ==
    quizState = "in-progress" =>
        /\ Len(pageQuestions) > 0
        /\ 0 <= currentQuestionIndex
        /\ currentQuestionIndex < Len(pageQuestions)

\* C27, the part that holds: the index stays within a questions list that is not empty
C27_IndexWithinNonEmptyList ==
    (quizState = "in-progress" /\ Len(pageQuestions) > 0) =>
        /\ 0 <= currentQuestionIndex
        /\ currentQuestionIndex < Len(pageQuestions)

\* the number of entries of userAnswers with isCorrect true
CorrectCount == Cardinality({ i \in 1..Len(userAnswers) : userAnswers[i].isCorrect })

\* C28: on the quiz page each question is answered at most once: userAnswers holds one
\* entry for every question before the current index, plus one for the current question
\* exactly when feedback is shown; the score is the number of entries with isCorrect
\* true; and in 'completed' userAnswers has exactly questions.length entries and
\* score <= questions.length.
C28_OneAnswerPerQuestion ==
    OnQuizPage =>
        /\ quizState = "in-progress" =>
              Len(userAnswers) = currentQuestionIndex + (IF showFeedback THEN 1 ELSE 0)
        /\ Len(userAnswers) <= Len(pageQuestions)
        /\ \A i \in 1..Len(userAnswers) :
              /\ i <= Len(pageQuestions)
              /\ userAnswers[i].questionId = pageQuestions[i].id
              /\ userAnswers[i].isCorrect =
                    (userAnswers[i].selectedAnswerId = pageQuestions[i].correctAnswerId)
        /\ score = CorrectCount
        /\ quizState = "completed" =>
              /\ Len(userAnswers) = Len(pageQuestions)
              /\ score <= Len(pageQuestions)

\* C28 witness: a quiz of two questions completed with one right and one wrong answer
C28_Witness ==
    /\ quizState = "completed"
    /\ Len(pageQuestions) = 2
    /\ Len(userAnswers) = 2
    /\ score = 1

\* C28 witness: the answer to the second question has been submitted and feedback is shown
C28_WitnessFeedback ==
    /\ quizState = "in-progress"
    /\ currentQuestionIndex = 1
    /\ showFeedback
    /\ Len(userAnswers) = 2

\* Start Quiz is pressed with no category selected
StartWithoutCategory ==
    /\ OnQuizPage
    /\ quizState = "setup"
    /\ ~isLoading
    /\ selectedCategories = <<>>
    /\ selectedCategories' = <<>>

\* the request of startQuiz settles
RequestSettles == OnQuizPage /\ fetches' < fetches

\* what startQuiz does after a request: the quiz starts on a questions list, and on a
\* failure or a body without a questions list quizState stays 'setup' with an error set
StartsOrReportsError ==
    /\ ~isLoading'
    /\ IF settled' = "questions"
       THEN Goes("setup", "in-progress") /\ pageError' = ""
       ELSE Goes("setup", "setup") /\ pageError' \in FetchErrors

C29_ErrorsExceptBodyWithoutList ==
    /\ [][StartWithoutCategory =>
             /\ pageError' = msgSelectCategory
             /\ fetches' = fetches
             /\ UNCHANGED <<quizState, pageQuestions, isLoading>>]_vars
    /\ [][(RequestSettles /\ ~(Legacy /\ settled' = "noQuestions")) =>
             StartsOrReportsError]_vars
    /\ [](isLoading => <>~isLoading)

\* C29: the earlier page is in progress, without an error, after a body without a list
C29_StartedWithoutList ==
    /\ Legacy
    /\ settled = "noQuestions"
    /\ quizState = "in-progress"
    /\ pageError = ""

\* C29 witness: the error of a start without a category is shown
C29_Witness ==
    /\ component = "quizPage"
    /\ quizState = "setup"
    /\ pageError = msgSelectCategory
    /\ selectedCategories = <<>>
    /\ fetches = 0
    /\ ~isLoading

\* C29 witness: a request has failed and the setup screen shows its error
C29_WitnessFailedRequest ==
    /\ component = "quizPage"
    /\ quizState = "setup"
    /\ pageError \in FetchErrors
    /\ Len(selectedCategories) > 0
    /\ ~isLoading

---------------------------------------------------------------------------
(* Properties of the calculator's results and error                        *)

\* the result state of the selected calculation type; the two conversions share one
SelectedResult ==
    IF calculationType = "WEIGHT_DOSE" THEN weightDoseResult
    ELSE IF calculationType = "DRIP_RATE" THEN dripRateResult
    ELSE conversionResult

\* the result states of the other calculation types are null
OtherResultsNull ==
    /\ calculationType # "WEIGHT_DOSE" => weightDoseResult = Null
    /\ calculationType # "DRIP_RATE" => dripRateResult = Null
    /\ calculationType \notin {"CONVERSION_LBS_KG", "CONVERSION_KG_LBS"} =>
           conversionResult = Null

\* the calculation type changes
TypeChanges == calculationType' # calculationType

\* C30: immediately after any Calculate exactly one of the error message and the result of
\* the selected calculation type is non-null, and the results of the other calculation
\* types are null; and changing the calculation type resets every result and the error to
\* null.
C30_OneOfErrorAndResult ==
    /\ [](calcPc = "calculated" =>
             /\ error.isNull # SelectedResult.isNull
             /\ OtherResultsNull)
    /\ [][TypeChanges => (AllResultsNull' /\ error' = NoError)]_vars

\* C30 witness: a drip rate was calculated after the type was changed from the weight dose
C30_Witness ==
    /\ Calculated("DRIP_RATE")
    /\ ~dripRateResult.isNull
    /\ error.isNull
    /\ weightDoseResult = Null
    /\ conversionResult = Null

\* C30 witness: a conversion was rejected, and the error is the only state that is set
C30_WitnessError ==
    /\ Calculated("CONVERSION_KG_LBS")
    /\ ~error.isNull
    /\ AllResultsNull

===========================================================================
